---- MODULE Spec2Model ----
(***************************************************************************)
(* Model of the Researcher agent execution loop (researcher.core.agent,    *)
(* BaseAgent) together with the completion tool (researcher.tools.         *)
(* control_tools, CompleteTool) and the data model it exchanges with the   *)
(* model client (researcher.llm.base) and the tools (researcher.core.tool).*)
(*                                                                         *)
(* One BaseAgent instance is modelled.  The model client and the tools     *)
(* other than CompleteTool are the environment: a model call returns any   *)
(* LLMResponse over a small alphabet or raises, and a registered tool's    *)
(* execute returns any ToolResult of a small alphabet or raises.           *)
(***************************************************************************)
EXTENDS Integers, Sequences, FiniteSets, TLC

(***************************************************************************)
(* Bounds of the model.                                                    *)
(***************************************************************************)
\* largest step budget (max_steps) an agent is constructed with
MaxStepsBound == 2
\* longest tool_calls list of one model response
MaxCalls == 2
\* number of messages appended to the history over the agent's lifetime
\* that the model follows
MaxHistory == 5

(***************************************************************************)
(* Values.                                                                 *)
(***************************************************************************)
\* Python's None for the optional string fields
None == "<None>"

\* str(None), as an f-string renders it
Str(v) == IF v = None THEN "None" ELSE v

\* the text of the exception an environment call raises
ExcText == "boom"

\* tool names of the repository (the name property of each Tool subclass)
CompleteName == "complete_task"

OrchestratorTools ==
    {"read_file", "write_file", "edit_file", "execute_shell", "call_agent", CompleteName}

SearcherTools ==
    {"web_search", "read_file", "write_file", "edit_file", "execute_shell", CompleteName}

\* a BaseAgent built directly from a tool list that holds no CompleteTool
BareTools == {"write_file"}

\* the agents the model constructs: agent_type and the names of its tools
AgentConfigs ==
    { [agent_type |-> "orchestrator", tools |-> OrchestratorTools],
      [agent_type |-> "searcher",     tools |-> SearcherTools],
      [agent_type |-> "custom",       tools |-> BareTools] }

SystemPrompt == "sys"
TaskText == "task"

\* ToolResult(success, content="", error=None, metadata={})
ToolResult(success, content, error, metadata) ==
    [success |-> success, content |-> content, error |-> error, metadata |-> metadata]

EmptyMeta == [k \in {} |-> TRUE]

\* Message(role, content, tool_calls=None, tool_call_id=None, name=None);
\* a tool_calls of None is the empty sequence
Message(role, content, tool_calls, tool_call_id, name) ==
    [role |-> role, content |-> content, tool_calls |-> tool_calls,
     tool_call_id |-> tool_call_id, name |-> name]

\* ToolCall(id, function=FunctionCall(name, arguments))
ToolCall(id, name, arguments) == [id |-> id, name |-> name, arguments |-> arguments]

(***************************************************************************)
(* The environment's alphabets.                                            *)
(***************************************************************************)
\* text of a model response that carries no tool call
Texts == {"", "txt"}

\* text of a model response that carries tool calls
CallTexts == {"thinking"}

\* arguments the model sends with a complete_task call; the empty mapping is
\* what a call with unparsable arguments carries
CompleteArgs ==
    { [success |-> TRUE, summary |-> "all done"],
      [success |-> FALSE, summary |-> "gave up"],
      EmptyMeta }

OtherArgs == { [filepath |-> "a.txt"] }

\* the function names the model requests
RequestNames == {"write_file", "web_search", CompleteName}

ArgsFor(name) == IF name = CompleteName THEN CompleteArgs ELSE OtherArgs

Requests == { r \in [name : RequestNames, arguments : CompleteArgs \cup OtherArgs] :
                r.arguments \in ArgsFor(r.name) }

RECURSIVE RequestSeqs(_)
RequestSeqs(n) ==
    IF n = 0 THEN { <<>> }
    ELSE LET shorter == RequestSeqs(n - 1)
         IN  shorter \cup { Append(s, r) : s \in { t \in shorter : Len(t) = n - 1 },
                                           r \in Requests }

\* the tool-call lists a model response may carry (the empty one included)
ResponseRequests == RequestSeqs(MaxCalls)

\* the provider's call id of the i-th call of the response of step s
CallId(s, i) == "call_" \o ToString(s) \o "_" \o ToString(i)

\* the LLMResponse the client parses: content and tool_calls
LLMResponse(s, content, reqs) ==
    [content |-> content,
     tool_calls |-> [i \in 1..Len(reqs) |->
                        ToolCall(CallId(s, i), reqs[i].name, reqs[i].arguments)]]

\* what execute of a registered tool other than CompleteTool may do: return a
\* ToolResult (with or without a filepath in its metadata) or raise
ToolOutcomes ==
    { [raised |-> FALSE,
       result |-> ToolResult(TRUE, "ok", None, [filepath |-> "/ws/a.txt"])],
      [raised |-> FALSE, result |-> ToolResult(TRUE, "ok", None, EmptyMeta)],
      [raised |-> FALSE, result |-> ToolResult(FALSE, "", "failed", EmptyMeta)],
      [raised |-> FALSE,
       result |-> ToolResult(FALSE, "", "failed", [filepath |-> "/ws/a.txt"])],
      [raised |-> TRUE, result |-> ToolResult(FALSE, "", ExcText, EmptyMeta)] }

\* CompleteTool.execute(success, summary): binding any other argument set raises
CompleteExecute(arguments) ==
    IF DOMAIN arguments = {"success", "summary"}
    THEN [raised |-> FALSE,
          result |-> ToolResult(arguments.success, arguments.summary, None,
                                [explicitly_completed |-> TRUE])]
    ELSE [raised |-> TRUE, result |-> ToolResult(FALSE, "", ExcText, EmptyMeta)]

\* the outcomes of tool.execute(**arguments) for the registered tool `name`
ExecuteOutcomes(name, arguments) ==
    IF name = CompleteName THEN { CompleteExecute(arguments) } ELSE ToolOutcomes

(***************************************************************************)
(* The workspace (researcher.core.workspace, WorkspaceManager).            *)
(*                                                                         *)
(* A path string is a record: whether it starts with "/" and its segments  *)
(* (pathlib keeps ".." segments as they are).  A location is the sequence  *)
(* of directory names from the file-system root.                           *)
(***************************************************************************)
\* Path(filepath)
PathOf(abs, parts) == [abs |-> abs, parts |-> parts]

\* self.workspace_dir = Path(workspace_dir).resolve(): the canonical root
WorkspaceDir == <<"ws">>

\* the symbolic links of the file system: one inside the workspace that
\* leads out of it
Links == (<<"ws", "lnk">> :> <<"etc">>)

\* the location the operating system reaches for the segments `rest` walked
\* from the location `cur`: ".." steps to the parent, a symbolic link is
\* followed (Path.resolve and every file access resolve a path this way)
RECURSIVE RealPath(_, _)
RealPath(cur, rest) ==
    IF rest = <<>> THEN cur
    ELSE IF Head(rest) = ".."
         THEN RealPath(IF cur = <<>> THEN cur ELSE SubSeq(cur, 1, Len(cur) - 1),
                       Tail(rest))
         ELSE LET nxt == Append(cur, Head(rest))
              IN  RealPath(IF nxt \in DOMAIN Links THEN Links[nxt] ELSE nxt, Tail(rest))

\* PurePath.relative_to(base) succeeds: base is a prefix of the segments as
\* written (no segment is resolved)
IsRelativeTo(parts, base) ==
    /\ Len(base) <= Len(parts)
    /\ SubSeq(parts, 1, Len(base)) = base

\* WorkspaceManager.resolve_path: an absolute path is returned as it is, a
\* relative one is joined to the root and resolved
resolve_path(p) ==
    IF p.abs THEN p.parts ELSE RealPath(<<>>, WorkspaceDir \o p.parts)

\* WorkspaceManager.is_path_safe
is_path_safe(p) == IsRelativeTo(resolve_path(p), WorkspaceDir)

\* WorkspaceManager.get_relative_path of a path is_path_safe accepted
get_relative_path(p) ==
    LET r == resolve_path(p) IN SubSeq(r, Len(WorkspaceDir) + 1, Len(r))

RECURSIVE JoinParts(_)
JoinParts(parts) ==
    IF parts = <<>> THEN ""
    ELSE IF Len(parts) = 1 THEN parts[1]
    ELSE parts[1] \o "/" \o JoinParts(Tail(parts))

\* the path string as the caller wrote it (the {filepath} of the messages)
PathStr(p) == (IF p.abs THEN "/" ELSE "") \o JoinParts(p.parts)

\* str() of an absolute Path, and of a relative one ("." when it is empty)
AbsStr(parts) == "/" \o JoinParts(parts)
RelStr(parts) == IF parts = <<>> THEN "." ELSE JoinParts(parts)

\* the path strings the model hands to the workspace and to the file tools;
\* in the absolute ones ".." follows the workspace root only, a directory
\* that exists
RelativePaths ==
    { <<"a">>, <<"d">>, <<"d", "a">>, <<"d", "..", "a">>,
      <<"..", "etc", "x">>, <<"lnk", "x">> }

AbsolutePaths ==
    { <<"ws", "a">>, <<"etc", "x">>, <<"ws", "..", "etc", "x">>,
      <<"ws", "lnk", "x">>, <<"ws", "d", "a">> }

PathInputs ==
    { PathOf(FALSE, parts) : parts \in RelativePaths }
        \cup { PathOf(TRUE, parts) : parts \in AbsolutePaths }

(***************************************************************************)
(* The file system under the tools: every location that may hold a file is *)
(* absent, a directory or a file with its text (a sequence of characters). *)
(* The root, the workspace root and the directory outside it always exist. *)
(***************************************************************************)
Absent == [kind |-> "absent", content |-> <<>>]
Dir == [kind |-> "dir", content |-> <<>>]
File(text) == [kind |-> "file", content |-> text]

FileNodes == { <<"ws", "a">>, <<"ws", "d">>, <<"ws", "d", "a">>, <<"etc", "x">> }

\* a fresh workspace, and a file outside it
InitialFs ==
    [n \in FileNodes |-> IF n = <<"etc", "x">> THEN File(<<"s">>) ELSE Absent]

\* what the file system holds at a location
Lookup(f, loc) == IF loc \in DOMAIN f THEN f[loc] ELSE Dir

\* the location a file access to the absolute path `parts` reaches
OsLoc(parts) == RealPath(<<>>, parts)

\* the locations above loc that are no fixed directory
Ancestors(loc) ==
    { SubSeq(loc, 1, k) : k \in 1..(Len(loc) - 1) } \cap FileNodes

(***************************************************************************)
(* Text: str.count, `in`, str.replace, readlines and the line numbering.   *)
(***************************************************************************)
NL == "\n"

\* the three characters the source text has between a line's number and
\* the line (U+00E2, U+2020, U+2019)
LineMark == <<"U+00E2", "U+2020", "U+2019">>

\* text starts with the characters of sub
StartsWith(text, sub) ==
    /\ Len(sub) <= Len(text)
    /\ SubSeq(text, 1, Len(sub)) = sub

\* sub in text
Contains(text, sub) ==
    \E i \in 0..(Len(text) - Len(sub)) : SubSeq(text, i + 1, i + Len(sub)) = sub

\* text.count(sub): the occurrences found from left to right, each search
\* starting after the previous occurrence; len(text) + 1 for the empty sub
RECURSIVE Count(_, _)
Count(text, sub) ==
    IF sub = <<>> THEN Len(text) + 1
    ELSE IF Len(text) < Len(sub) THEN 0
    ELSE IF StartsWith(text, sub)
         THEN 1 + Count(SubSeq(text, Len(sub) + 1, Len(text)), sub)
         ELSE Count(Tail(text), sub)

\* text.replace(old, new)
RECURSIVE Replace(_, _, _)
Replace(text, old, new) ==
    IF old = <<>>
    THEN IF text = <<>> THEN new
         ELSE new \o <<Head(text)>> \o Replace(Tail(text), old, new)
    ELSE IF Len(text) < Len(old) THEN text
    ELSE IF StartsWith(text, old)
         THEN new \o Replace(SubSeq(text, Len(old) + 1, Len(text)), old, new)
         ELSE <<Head(text)>> \o Replace(Tail(text), old, new)

\* f.readlines() with the trailing newline of each line stripped
RECURSIVE Lines(_, _)
Lines(text, cur) ==
    IF text = <<>> THEN (IF cur = <<>> THEN <<>> ELSE <<cur>>)
    ELSE IF Head(text) = NL THEN <<cur>> \o Lines(Tail(text), <<>>)
    ELSE Lines(Tail(text), Append(cur, Head(text)))

\* the decimal digits of n
RECURSIVE Digits(_)
Digits(n) ==
    IF n < 10 THEN <<ToString(n)>> ELSE Append(Digits(n \div 10), ToString(n % 10))

\* f"{line_num:6d}": right-aligned in six characters
Padded(n) ==
    LET d == Digits(n)
    IN  [i \in 1..(IF Len(d) < 6 THEN 6 - Len(d) ELSE 0) |-> " "] \o d

\* "\n".join(f"{line_num:6d}<mark>{line}"), the first line numbered `first`
NumberedLines(lines, first) ==
    IF lines = <<>> THEN <<>>
    ELSE LET RECURSIVE Cat(_)
             Cat(i) == LET row == Padded(first + i - 1) \o LineMark \o lines[i]
                       IN  IF i = Len(lines) THEN row ELSE row \o <<NL>> \o Cat(i + 1)
         IN  Cat(1)

\* the characters of a text as one string
RECURSIVE Text(_)
Text(chars) == IF chars = <<>> THEN "" ELSE Head(chars) \o Text(Tail(chars))

ReadLines(text) == Lines(text, <<>>)

(***************************************************************************)
(* The file tools (researcher.tools.file_tools).  execute is a function of *)
(* the file system and the arguments: it gives the outcome (the ToolResult *)
(* returned, or that an exception left execute) and the file system it     *)
(* leaves behind.                                                          *)
(***************************************************************************)
\* an optional integer argument: omitted (None) or given
Omitted == <<>>
Given(n) == <<n>>
OptStr(x) == IF x = Omitted THEN "None" ELSE ToString(x[1])

Returned(tr) == [raised |-> FALSE, result |-> tr]
Failure(error) == Returned(ToolResult(FALSE, "", error, EmptyMeta))

\* the ToolResult of `if not self.workspace.is_path_safe(resolved_path)`
AccessDenied(p) == Failure("Access denied: " \o PathStr(p) \o " is outside workspace")

\* the check the three tools make before they touch the file system
PathAllowed(p) == is_path_safe(PathOf(TRUE, resolve_path(p)))

\* ReadTool.execute(filepath, start_line, end_line)
ReadExecute(f, p, start_line, end_line) ==
    LET resolved == resolve_path(p)
        entry == Lookup(f, OsLoc(resolved))
        lines == ReadLines(entry.content)
        total_lines == Len(lines)
        ranged == start_line # Omitted \/ end_line # Omitted
        start_idx == IF start_line # Omitted /\ start_line[1] # 0
                     THEN start_line[1] - 1 ELSE 0
        end_idx == IF end_line # Omitted /\ end_line[1] # 0
                   THEN end_line[1] ELSE total_lines
        selected == IF ranged THEN SubSeq(lines, start_idx + 1, end_idx) ELSE lines
        first_line_num == IF ranged THEN start_idx + 1 ELSE 1
    IN  IF ~PathAllowed(p) THEN AccessDenied(p)
        ELSE IF entry.kind = "absent" THEN Failure("File not found: " \o PathStr(p))
        ELSE IF entry.kind # "file" THEN Failure("Not a file: " \o PathStr(p))
        ELSE IF ranged /\ (start_idx < 0 \/ start_idx >= total_lines)
             THEN Failure("start_line " \o OptStr(start_line) \o " out of range (file has "
                              \o ToString(total_lines) \o " lines)")
        ELSE IF ranged /\ (end_idx < start_idx \/ end_idx > total_lines)
             THEN Failure("end_line " \o OptStr(end_line)
                              \o " invalid (must be >= start_line and <= "
                              \o ToString(total_lines) \o ")")
        ELSE Returned(ToolResult(TRUE, NumberedLines(selected, first_line_num), None,
                 [filepath |-> AbsStr(resolved),
                  relative_path |-> RelStr(get_relative_path(PathOf(TRUE, resolved))),
                  total_lines |-> total_lines,
                  lines_read |-> Len(selected),
                  start_line |-> first_line_num,
                  end_line |-> first_line_num + Len(selected) - 1]))

\* resolved_path.parent.mkdir(parents=True, exist_ok=True): the locations
\* that have to be directories
ParentChain(resolved) ==
    LET parent == OsLoc(SubSeq(resolved, 1, Len(resolved) - 1))
    IN  (Ancestors(parent) \cup {parent}) \cap FileNodes

\* content.count("\n") + (1 if content and not content.endswith("\n") else 0)
LineCount(content) ==
    Count(content, <<NL>>)
        + (IF content # <<>> /\ content[Len(content)] # NL THEN 1 ELSE 0)

WriteAction(mode) ==
    IF mode = "create" THEN "Created"
    ELSE IF mode = "append" THEN "Appended to" ELSE "Overwrote"

\* a create mode that does not look whether the file exists
CreateRefusedNever(mode, entry) == FALSE

\* if mode == "create" and file_exists
CreateRefused(mode, entry) == mode = "create" /\ entry.kind # "absent"

\* WriteTool.execute(filepath, content, mode)
\* a file opened for appending that is emptied like one opened for writing
WrittenTextReplaced(mode, previous, content) == content

\* what the file holds after open(resolved_path, write_mode) and f.write(content):
\* "a" keeps what was there, "w" does not
WrittenText(mode, previous, content) ==
    IF mode = "append" THEN previous \o content ELSE content

WriteExecute(f, p, content, mode) ==
    LET resolved == resolve_path(p)
        loc == OsLoc(resolved)
        entry == Lookup(f, loc)
        chain == ParentChain(resolved)
        made == [n \in FileNodes |->
                    IF n \in chain /\ f[n].kind = "absent" THEN Dir ELSE f[n]]
        text == WrittenText(mode, Lookup(made, loc).content, content)
        display == get_relative_path(PathOf(TRUE, resolved))
    IN  IF mode \notin {"create", "overwrite", "append"}
        THEN [out |-> Failure("Invalid mode: " \o mode
                          \o ". Must be 'create', 'overwrite', or 'append'"),
              fs |-> f]
        ELSE IF ~PathAllowed(p) THEN [out |-> AccessDenied(p), fs |-> f]
        ELSE IF CreateRefused(mode, entry)
             THEN [out |-> Failure("File already exists: " \o PathStr(p)
                               \o ". Use mode='overwrite' to replace it."),
                   fs |-> f]
        ELSE IF \E n \in chain : f[n].kind = "file"
             THEN [out |-> Failure("Write error: [Errno 17] File exists: '"
                               \o AbsStr(SubSeq(resolved, 1, Len(resolved) - 1)) \o "'"),
                   fs |-> f]
        ELSE IF Lookup(made, loc).kind = "dir"
             THEN [out |-> Failure("Write error: [Errno 21] Is a directory: '"
                               \o AbsStr(resolved) \o "'"),
                   fs |-> made]
        ELSE [out |-> Returned(ToolResult(TRUE,
                          WriteAction(mode) \o " " \o RelStr(display) \o " ("
                              \o ToString(LineCount(content)) \o " lines, "
                              \o ToString(Len(text)) \o " bytes)",
                          None,
                          [filepath |-> AbsStr(resolved),
                           relative_path |-> RelStr(display),
                           mode |-> mode,
                           bytes_written |-> Len(text),
                           line_count |-> LineCount(content)])),
              fs |-> [made EXCEPT ![loc] = File(text)]]

\* an edit that writes the content back as it read it
NewContentKept(content, old_string, new_string) == content

\* new_content = content.replace(old_string, new_string)
NewContent(content, old_string, new_string) == Replace(content, old_string, new_string)

\* an edit that replaces however often old_string occurs
TooManyNever(count) == FALSE

\* if occurrence_count > 1
TooMany(count) == count > 1

\* EditTool.execute(filepath, old_string, new_string)
EditExecute(f, p, old_string, new_string) ==
    LET resolved == resolve_path(p)
        loc == OsLoc(resolved)
        entry == Lookup(f, loc)
        content == entry.content
        occurrence_count == Count(content, old_string)
        new_content == NewContent(content, old_string, new_string)
        display == get_relative_path(PathOf(TRUE, resolved))
    IN  IF ~PathAllowed(p) THEN [out |-> AccessDenied(p), fs |-> f]
        ELSE IF entry.kind = "absent"
             THEN [out |-> Failure("File not found: " \o PathStr(p)), fs |-> f]
        ELSE IF entry.kind # "file"
             THEN [out |-> Failure("Not a file: " \o PathStr(p)), fs |-> f]
        ELSE IF ~Contains(content, old_string)
             THEN [out |-> Failure("old_string not found in file: " \o Text(old_string)),
                   fs |-> f]
        ELSE IF TooMany(occurrence_count)
             THEN [out |-> Failure("old_string appears " \o ToString(occurrence_count)
                               \o " times in file. It must be unique to prevent "
                               \o "accidental replacements."),
                   fs |-> f]
        ELSE [out |-> Returned(ToolResult(TRUE,
                          "Edited " \o RelStr(display) \o ": replaced 1 occurrence",
                          None,
                          [filepath |-> AbsStr(resolved),
                           relative_path |-> RelStr(display),
                           old_length |-> Len(old_string),
                           new_length |-> Len(new_string),
                           size_change |-> Len(new_content) - Len(content)])),
              fs |-> [f EXCEPT ![loc] = File(new_content)]]

\* the arguments the model draws for the file tools
WriteContents == { <<>>, <<"a", NL>>, <<"a", "b", "a">> }
WriteModes == { "create", "overwrite", "append", "replace" }
OldStrings == { <<>>, <<"a">>, <<"b">> }
NewStrings == { <<>>, <<"c">> }
ReadRanges == { <<Omitted, Omitted>>, <<Given(1), Given(1)>>, <<Given(2), Omitted>> }

\* a tool call and what came of it
ToolCallOf(tool, arguments) == [tool |-> tool, arguments |-> arguments]
NoCall == ToolCallOf("none", EmptyMeta)
NoOutcome == [raised |-> FALSE, result |-> ToolResult(FALSE, "", None, EmptyMeta)]
NoWorkflow == [results |-> <<>>]

\* no shell command run yet: no process started
NoShell ==
    [pc |-> "idle", timeout |-> 0, started |-> FALSE,
     behaviour |-> [text |-> "", duration |-> 0, returncode |-> 0, stdout |-> "",
                    stderr |-> "", child |-> "none"],
     procs |-> [sh |-> "none", child |-> "none"]]

\* no delegation made yet: the locals of CallAgentTool.execute unset
\* (created: _create_agent returned an agent; caller: the agent whose loop
\* awaits this execute; calls: what the nested run did, kept when it returned)
NoDelegation ==
    [pc |-> "idle", agent_type |-> "", task_description |-> "", max_steps |-> 0,
     ui |-> FALSE, trace_logger |-> FALSE, ran |-> FALSE,
     nested |-> ToolResult(FALSE, "", None, EmptyMeta), raised_in |-> "none", e |-> "",
     created |-> FALSE, caller |-> << >>, calls |-> << >>]

(***************************************************************************)
(* State.                                                                  *)
(***************************************************************************)
VARIABLES
    agent_type,     \* self.agent_type
    tools,          \* the keys of self.tools
    max_steps,      \* self.max_steps
    messages,       \* self.messages
    step,           \* run's local step
    output_files,   \* run's local output_files
    response,       \* run's local response (the current step's LLMResponse)
    idx,            \* position of the for loop in response.tool_calls
    tool_result,    \* run's local tool_result (the last one computed)
    pc,             \* where the run is: idle, loop, llm, dispatch, tool, done
    result,         \* the ToolResult the last run returned
    exit,           \* which return statement of run produced result
    runs,           \* number of run() calls started on this agent
    appended,       \* number of messages appended since construction
    trace,          \* the calls the current run has made and what came back
    fs,             \* the file system under the file tools
    fs_before,      \* the file system as the last tool call found it
    invocation,     \* the last call of a tool's execute made from outside a run
    execution,      \* what that call returned, or that it raised
    ops,            \* number of such calls made
    workflow,       \* a scripted sequence of calls: its inputs and its results
    delegation,     \* CallAgentTool.execute in progress: its arguments and locals
    shell           \* BashTool.execute in progress: its arguments and its processes

agentvars == <<agent_type, tools, max_steps, messages, step, output_files, response,
               idx, tool_result, pc, result, exit, runs, appended, trace>>

\* the state of the tools exercised on their own
toolvars == <<fs, fs_before, invocation, execution, ops, workflow, delegation, shell>>

vars == <<agentvars, toolvars>>

config == <<agent_type, tools, max_steps>>

NoResponse == [content |-> "", tool_calls |-> <<>>]
NoResult == ToolResult(FALSE, "", None, EmptyMeta)

(***************************************************************************)
(* BaseAgent.__init__                                                      *)
(***************************************************************************)
InitialMessages == << Message("system", SystemPrompt, <<>>, None, None) >>

\* no tool has been called from outside a run
ToolsIdle ==
    /\ fs = InitialFs
    /\ fs_before = InitialFs
    /\ invocation = NoCall
    /\ execution = NoOutcome
    /\ ops = 0
    /\ workflow = NoWorkflow
    /\ delegation = NoDelegation
    /\ shell = NoShell

Init ==
    /\ ToolsIdle
    /\ \E c \in AgentConfigs : agent_type = c.agent_type /\ tools = c.tools
    /\ max_steps \in 0..MaxStepsBound
    /\ messages = InitialMessages
    /\ step = 0
    /\ output_files = <<>>
    /\ response = NoResponse
    /\ idx = 0
    /\ tool_result = NoResult
    /\ pc = "idle"
    /\ result = NoResult
    /\ exit = "none"
    /\ runs = 0
    /\ appended = 0
    /\ trace = <<>>

(***************************************************************************)
(* BaseAgent.run: the pieces of the loop body.                             *)
(***************************************************************************)
\* the loop test off by one: a step is still taken at step = max_steps
LoopGuardInclusive(s, m) == s <= m

\* while step < self.max_steps
LoopGuard(s, m) == s < m

\* if not response.tool_calls
NoToolCalls(resp) == Len(resp.tool_calls) = 0

\* if function_name not in self.tools
IsRegistered(name) == name \in tools

\* a loop that never recognises the completion call
IsCompleteCallNever(name) == FALSE

\* if function_name == "complete_task"
IsCompleteCall(name) == name = CompleteName

\* the assistant message appended for a response
AssistantMessage(resp) == Message("assistant", resp.content, resp.tool_calls, None, None)

\* the result synthesized for a function name that is no key of self.tools
UnknownToolResult(name) == ToolResult(FALSE, "", "Unknown tool: " \o name, EmptyMeta)

\* the result synthesized when tool.execute raised
ExecErrorResult(text) == ToolResult(FALSE, "", "Tool execution error: " \o text, EmptyMeta)

\* tool_result of `await tool.execute(**arguments)` inside the inner try
ResultOf(outcome) ==
    IF outcome.raised THEN ExecErrorResult(outcome.result.error) ELSE outcome.result

\* if tool_result.metadata.get("filepath"): output_files.append(...)
TrackFiles(files, outcome) ==
    IF ~outcome.raised /\ "filepath" \in DOMAIN outcome.result.metadata
    THEN Append(files, outcome.result.metadata.filepath)
    ELSE files

\* a tool message that carries the result's content even for a failure
ToolMessageContentOnly(tr, call) == Message("tool", tr.content, <<>>, call.id, call.name)

\* a tool message that is not tagged with the id of its call
ToolMessageUntagged(tr, call) ==
    Message("tool",
            IF tr.success THEN tr.content ELSE "Error: " \o Str(tr.error),
            <<>>, None, call.name)

\* a tool message that gives a failure's error text without the 'Error: ' prefix
ToolMessageBareError(tr, call) ==
    Message("tool",
            IF tr.success THEN tr.content ELSE Str(tr.error),
            <<>>, call.id, call.name)

\* the tool message appended for a call's tool_result
ToolMessage(tr, call) ==
    Message("tool",
            IF tr.success THEN tr.content ELSE "Error: " \o Str(tr.error),
            <<>>, call.id, call.name)

\* the metadata every return statement of run writes
LoopMeta(at, s, files) ==
    [agent_type |-> at, steps_used |-> s, output_files |-> files]

\* the completion result returned as the tool produced it
CompletionResultBare(tr, at, s, files) == tr

\* tool_result.metadata.update({...}); return tool_result
CompletionResult(tr, at, s, files) ==
    [tr EXCEPT !.metadata = LoopMeta(at, s, files) @@ tr.metadata]

\* an abnormal termination reported like an empty response: no flag, no text
AbnormalResultUntagged(resp, at, s, files) ==
    ToolResult(FALSE, "",
               "Agent did not explicitly complete the task (missing complete_task call)",
               LoopMeta(at, s, files))

\* the return of the no-tool-calls branch
AbnormalResult(resp, at, s, files) ==
    ToolResult(FALSE, resp.content,
               "Agent did not explicitly complete the task (missing complete_task call)",
               LoopMeta(at, s, files) @@ [abnormal_termination |-> TRUE])

\* budget exhaustion reported as a truncated success
ExhaustedResultSuccess(m, at, s, files) ==
    ToolResult(TRUE, "", None, LoopMeta(at, s, files))

\* the return after the while loop
ExhaustedResult(m, at, s, files) ==
    ToolResult(FALSE, "",
               "Max steps (" \o ToString(m) \o ") reached without completion",
               LoopMeta(at, s, files))

\* a caught exception reported like a response without tool calls
ExceptionResultAbnormal(text, at, s, files) ==
    ToolResult(FALSE, "",
               "Agent did not explicitly complete the task (missing complete_task call)",
               LoopMeta(at, s, files) @@ [abnormal_termination |-> TRUE])

\* the exception result without the loop's metadata
ExceptionResultBare(text, at, s, files) ==
    ToolResult(FALSE, "", "Agent execution error: " \o text, EmptyMeta)

\* an exception result that leaves the failing model call out of steps_used
ExceptionResultUncounted(text, at, s, files) ==
    ToolResult(FALSE, "", "Agent execution error: " \o text, LoopMeta(at, s - 1, files))

\* the return of the outermost except
ExceptionResult(text, at, s, files) ==
    ToolResult(FALSE, "", "Agent execution error: " \o text, LoopMeta(at, s, files))

(***************************************************************************)
(* BaseAgent.run: the steps of one run.                                    *)
(***************************************************************************)
\* a for loop that walks the tool calls from the last to the first
CurrentCallReversed(resp, i) == resp.tool_calls[Len(resp.tool_calls) - i + 1]

\* for tool_call in response.tool_calls: the call the for loop is at
CurrentCall(resp, i) == resp.tool_calls[i]

\* the entries of trace: a model call is started, returns a response with n
\* tool calls or raises; the n-th call of the response is answered locally as
\* unknown; the execute of the tool of the n-th call is started, and returns
\* or raises
Event(ev, id, name, n, raised) ==
    [ev |-> ev, id |-> id, name |-> name, n |-> n, raised |-> raised]

LlmCallEvent == Event("llm_call", None, None, 0, FALSE)
LlmReturnEvent(resp) == Event("llm_return", None, None, Len(resp.tool_calls), FALSE)
LlmRaiseEvent == Event("llm_raise", None, None, 0, TRUE)
UnknownEvent(call, i) == Event("unknown", call.id, call.name, i, FALSE)
ToolStartEvent(call, i) == Event("tool_start", call.id, call.name, i, FALSE)
ToolEndEvent(call, i, outcome) == Event("tool_end", call.id, call.name, i, outcome.raised)

\* the model follows the agent while its lifetime budget of messages lasts:
\* a message is appended when it and the n tool messages that may answer it
\* fit the budget
Fits(n) == appended + 1 + n <= MaxHistory

\* self.messages.append(m)
\* a history that keeps only its system message and the newest message
AppendMessageForgetting(m) ==
    /\ messages' = << messages[1], m >>
    /\ appended' = appended + 1

\* self.messages.append(m)
AppendMessage(m) ==
    /\ messages' = Append(messages, m)
    /\ appended' = appended + 1

\* what a return statement of run leaves behind
Return(res, how) ==
    /\ result' = res
    /\ exit' = how
    /\ pc' = "done"

\* the for loop moves to the next call of the response, or the while loop
\* to its next test
Advance ==
    IF idx < Len(response.tool_calls)
    THEN /\ idx' = idx + 1
         /\ pc' = "dispatch"
    ELSE /\ idx' = idx
         /\ pc' = "loop"

\* a for body that appends the tool message before it looks for the
\* completion call
AfterToolAnswering(call, tr, files) ==
    IF IsCompleteCall(call.name)
    THEN /\ Return(CompletionResult(tr, agent_type, step, files), "completion")
         /\ AppendMessage(ToolMessage(tr, call))
         /\ UNCHANGED idx
    ELSE /\ AppendMessage(ToolMessage(tr, call))
         /\ Advance
         /\ UNCHANGED <<result, exit>>

\* the part of the for body after tool_result is known: a complete_task call
\* returns the result, any other call appends its tool message
AfterTool(call, tr, files) ==
    IF IsCompleteCall(call.name)
    THEN /\ Return(CompletionResult(tr, agent_type, step, files), "completion")
         /\ UNCHANGED <<messages, appended, idx>>
    ELSE /\ AppendMessage(ToolMessage(tr, call))
         /\ Advance
         /\ UNCHANGED <<result, exit>>

\* run(task_description): the user message is appended, step and
\* output_files start afresh
Run ==
    /\ pc \in {"idle", "done"}
    /\ Fits(0)
    /\ runs' = runs + 1
    /\ AppendMessage(Message("user", TaskText, <<>>, None, None))
    /\ step' = 0
    /\ output_files' = <<>>
    /\ response' = NoResponse
    /\ idx' = 0
    /\ tool_result' = NoResult
    /\ trace' = <<>>
    /\ pc' = "loop"
    /\ UNCHANGED <<toolvars, config, result, exit>>

\* the while test succeeds: step += 1 and llm.generate is awaited
StartStep ==
    /\ pc = "loop"
    /\ Fits(0)
    /\ LoopGuard(step, max_steps)
    /\ step' = step + 1
    /\ trace' = Append(trace, LlmCallEvent)
    /\ pc' = "llm"
    /\ UNCHANGED <<toolvars, config, messages, appended, output_files, response, idx,
                   tool_result, result, exit, runs>>

\* the while test fails: max steps reached
Exhausted ==
    /\ pc = "loop"
    /\ ~LoopGuard(step, max_steps)
    /\ Return(ExhaustedResult(max_steps, agent_type, step, output_files), "exhausted")
    /\ UNCHANGED <<toolvars, config, messages, appended, step, output_files, response, idx,
                   tool_result, runs, trace>>

\* llm.generate raises: the outermost except returns
LLMRaise ==
    /\ pc = "llm"
    /\ Return(ExceptionResult(ExcText, agent_type, step, output_files), "exception")
    /\ trace' = Append(trace, LlmRaiseEvent)
    /\ UNCHANGED <<toolvars, config, messages, appended, step, output_files, response, idx,
                   tool_result, runs>>

\* llm.generate returns a response without tool calls: abnormal termination
LLMReturnText ==
    /\ pc = "llm"
    /\ \E content \in Texts :
         LET resp == LLMResponse(step, content, <<>>)
         IN  /\ NoToolCalls(resp)
             /\ response' = resp
             /\ AppendMessage(AssistantMessage(resp))
             /\ Return(AbnormalResult(resp, agent_type, step, output_files), "abnormal")
             /\ trace' = Append(trace, LlmReturnEvent(resp))
    /\ UNCHANGED <<toolvars, config, step, output_files, idx, tool_result, runs>>

\* llm.generate returns a response with tool calls: the for loop starts
LLMReturnCalls ==
    /\ pc = "llm"
    /\ \E content \in CallTexts, reqs \in { r \in ResponseRequests : Fits(Len(r)) } :
         LET resp == LLMResponse(step, content, reqs)
         IN  /\ ~NoToolCalls(resp)
             /\ response' = resp
             /\ AppendMessage(AssistantMessage(resp))
             /\ trace' = Append(trace, LlmReturnEvent(resp))
             /\ idx' = 1
             /\ pc' = "dispatch"
    /\ UNCHANGED <<toolvars, config, step, output_files, tool_result, result, exit, runs>>

\* the for body for a function name that is no key of self.tools
DispatchUnknown ==
    /\ pc = "dispatch"
    /\ LET call == CurrentCall(response, idx)
           tr == UnknownToolResult(call.name)
       IN  /\ ~IsRegistered(call.name)
           /\ tool_result' = tr
           /\ trace' = Append(trace, UnknownEvent(call, idx))
           /\ AfterTool(call, tr, output_files)
    /\ UNCHANGED <<toolvars, config, step, output_files, response, runs>>

\* the for body for a registered tool, up to the await of tool.execute
DispatchExecute ==
    /\ pc = "dispatch"
    /\ LET call == CurrentCall(response, idx)
       IN  /\ IsRegistered(call.name)
           /\ trace' = Append(trace, ToolStartEvent(call, idx))
    /\ pc' = "tool"
    /\ UNCHANGED <<toolvars, config, messages, appended, step, output_files, response, idx,
                   tool_result, result, exit, runs>>

\* tool.execute returns or raises, and the rest of the for body runs
ToolDone ==
    /\ pc = "tool"
    /\ LET call == CurrentCall(response, idx)
       IN  \E outcome \in ExecuteOutcomes(call.name, call.arguments) :
             LET tr == ResultOf(outcome)
                 files == TrackFiles(output_files, outcome)
             IN  /\ tool_result' = tr
                 /\ output_files' = files
                 /\ trace' = Append(trace, ToolEndEvent(call, idx, outcome))
                 /\ AfterTool(call, tr, files)
    /\ UNCHANGED <<toolvars, config, step, response, runs>>

\* reset(), called between runs: the history is the system message again
Reset ==
    /\ pc \in {"idle", "done"}
    /\ messages' = InitialMessages
    /\ pc' = "idle"
    /\ trace' = <<>>
    /\ UNCHANGED <<toolvars, config, appended, step, output_files, response, idx, tool_result,
                   result, exit, runs>>

Next ==
    \/ Run
    \/ StartStep
    \/ Exhausted
    \/ LLMRaise
    \/ LLMReturnText
    \/ LLMReturnCalls
    \/ DispatchUnknown
    \/ DispatchExecute
    \/ ToolDone
    \/ Reset

Spec == Init /\ [][Next]_vars

(***************************************************************************)
(* Observations of a run, used by the properties below.                    *)
(***************************************************************************)
Last(seq) == seq[Len(seq)]

\* the position of the user message of the current run (0 after a reset)
RunStart ==
    LET users == { i \in 1..Len(messages) : messages[i].role = "user" }
    IN  IF users = {} THEN 0 ELSE CHOOSE i \in users : \A j \in users : j <= i

\* the messages the current run appended after its user message
RunMessages ==
    IF RunStart = 0 THEN <<>> ELSE SubSeq(messages, RunStart + 1, Len(messages))

\* the number of llm.generate calls the current run has started
LlmCalls == Cardinality({ i \in 1..Len(trace) : trace[i].ev = "llm_call" })

\* the model raised in the current run
LlmRaised == \E i \in 1..Len(trace) : trace[i].ev = "llm_raise"

\* an event after which a run may not go on: the model raised, the model
\* answered without tool calls, or a call named complete_task was dispatched
IsTerminalEvent(e) ==
    \/ e.ev = "llm_raise"
    \/ e.ev = "llm_return" /\ e.n = 0
    \/ e.ev \in {"unknown", "tool_end"} /\ e.name = CompleteName

ExitOf(e) ==
    IF e.ev = "llm_raise" THEN "exception"
    ELSE IF e.ev = "llm_return" THEN "abnormal"
    ELSE "completion"

\* every response of the current run carries tool calls, none of them a call
\* of complete_task
NeverCompletes ==
    \A k \in 1..Len(RunMessages) :
        RunMessages[k].role = "assistant" =>
            /\ Len(RunMessages[k].tool_calls) >= 1
            /\ \A c \in 1..Len(RunMessages[k].tool_calls) :
                   RunMessages[k].tool_calls[c].name # CompleteName

(***************************************************************************)
(* C1 as stated: every run ends through exactly one of an explicit         *)
(* completion call, abnormal termination or budget exhaustion, and through *)
(* nothing else.                                                           *)
(***************************************************************************)
C1_ThreeExitsOnly ==
    pc = "done" =>
        \/ trace # <<>> /\ IsTerminalEvent(Last(trace))
                        /\ ExitOf(Last(trace)) \in {"completion", "abnormal"}
        \/ exit = "exhausted"

(***************************************************************************)
(* C1 amended: every run returns exactly one terminal ToolResult, through  *)
(* exactly one of four ways: a complete_task call, abnormal termination    *)
(* (a response without tool calls), budget exhaustion, or an exception of  *)
(* the model call caught by the outermost handler.  A terminal event is    *)
(* the last thing a run does and decides the exit; a run that ends by      *)
(* exhaustion has seen no terminal event and has spent its budget.         *)
(***************************************************************************)
C1_ExactlyOneExit ==
    /\ pc = "done" => exit \in {"completion", "abnormal", "exhausted", "exception"}
    /\ \A i \in 1..Len(trace) :
           IsTerminalEvent(trace[i]) =>
               /\ i = Len(trace)
               /\ pc = "done"
               /\ exit = ExitOf(trace[i])
    /\ (pc = "done" /\ exit # "exhausted") =>
           /\ trace # <<>>
           /\ IsTerminalEvent(Last(trace))
    /\ (pc = "done" /\ exit = "exhausted") => step >= max_steps

\* a run ended by a model call that raised, after tool calls were executed
C1_Witness ==
    /\ pc = "done"
    /\ exit = "exception"
    /\ Len(trace) > 2

(***************************************************************************)
(* C2: run returns success = TRUE only if the tool named complete_task was *)
(* executed in that run and its own ToolResult had success = TRUE;         *)
(* abnormal termination, budget exhaustion, a caught exception and a       *)
(* completion call whose result has success = FALSE yield success = FALSE. *)
(***************************************************************************)
C2_SuccessOnlyByCompletion ==
    pc = "done" =>
        /\ result.success =>
               /\ exit = "completion"
               /\ trace # <<>>
               /\ Last(trace).ev = "tool_end"
               /\ Last(trace).name = CompleteName
               /\ ~Last(trace).raised
               /\ tool_result.success
               /\ CurrentCall(response, idx).name = CompleteName
               /\ CurrentCall(response, idx).arguments.success
        /\ exit \in {"abnormal", "exhausted", "exception"} => ~result.success
        /\ (exit = "completion" /\ ~tool_result.success) => ~result.success

\* a run that returned success after an earlier tool call of the same run
C2_Witness ==
    /\ pc = "done"
    /\ result.success
    /\ Len(RunMessages) >= 2

(***************************************************************************)
(* C3: a run never makes more than max_steps model calls; with             *)
(* max_steps = n >= 1 and a model that always answers with at least one    *)
(* tool call and never with complete_task, the run makes exactly n model   *)
(* calls and returns a failed result with steps_used = n.                  *)
(***************************************************************************)
C3_BudgetExhaustion ==
    /\ LlmCalls <= max_steps
    /\ (pc = "done" /\ max_steps >= 1 /\ NeverCompletes /\ ~LlmRaised) =>
           /\ LlmCalls = max_steps
           /\ exit = "exhausted"
           /\ ~result.success
           /\ result.metadata.steps_used = max_steps

\* a run with a budget of two steps that used both
C3_Witness ==
    /\ pc = "done"
    /\ max_steps = 2
    /\ NeverCompletes
    /\ ~LlmRaised
    /\ LlmCalls = 2
    /\ result.metadata.steps_used = 2

(***************************************************************************)
(* C4: a response without tool calls ends the run at once: nothing is      *)
(* executed and no model call is made after it, and the result has         *)
(* success = FALSE, metadata.abnormal_termination = TRUE, the model's text *)
(* as content and the number of the step as steps_used (1 for the first    *)
(* reply).                                                                 *)
(***************************************************************************)
C4_AbnormalTermination ==
    /\ \A i \in 1..Len(trace) :
           (trace[i].ev = "llm_return" /\ trace[i].n = 0) =>
               /\ i = Len(trace)
               /\ pc = "done"
               /\ exit = "abnormal"
    /\ (pc = "done" /\ exit = "abnormal") =>
           /\ ~result.success
           /\ "abnormal_termination" \in DOMAIN result.metadata
           /\ result.metadata.abnormal_termination = TRUE
           /\ Last(messages).role = "assistant"
           /\ Last(messages).tool_calls = <<>>
           /\ result.content = Last(messages).content
           /\ result.content = response.content
           /\ result.metadata.steps_used = LlmCalls
           /\ Last(trace).ev = "llm_return"
           /\ trace[Len(trace) - 1].ev = "llm_call"
           /\ (Len(trace) = 2 => result.metadata.steps_used = 1)

\* the first reply of a run carries text and no tool call
C4_Witness ==
    /\ pc = "done"
    /\ exit = "abnormal"
    /\ Len(trace) = 2
    /\ result.content = "txt"
    /\ result.metadata.steps_used = 1

(***************************************************************************)
(* Further observations: tool messages and dispatch order.                 *)
(***************************************************************************)
\* the current run appended a tool message for call `id` with this content
HasToolMessage(id, name, content) ==
    \E k \in 1..Len(RunMessages) :
        /\ RunMessages[k].role = "tool"
        /\ RunMessages[k].tool_call_id = id
        /\ RunMessages[k].name = name
        /\ RunMessages[k].content = content

\* the current run appended some tool message for call `id`
Answered(id) ==
    \E k \in 1..Len(RunMessages) :
        RunMessages[k].role = "tool" /\ RunMessages[k].tool_call_id = id

\* the current run handed call `id` to a tool or answered it as unknown
Dispatched(id) ==
    \E i \in 1..Len(trace) :
        trace[i].ev \in {"tool_start", "unknown"} /\ trace[i].id = id

RaiseErrorText == "Error: Tool execution error: " \o ExcText

\* the position of the last llm_return event before position i (0 if none)
ReturnBefore(i) ==
    LET rs == { r \in 1..(i - 1) : trace[r].ev = "llm_return" }
    IN  IF rs = {} THEN 0 ELSE CHOOSE r \in rs : \A q \in rs : q <= r

\* what the loop does right after the event at position i, when that event
\* answered a call without ending the run: the next call of the same
\* response is dispatched, or, after the last call, the next step begins
\* (or the run stands at the loop test or has found the budget spent)
GoesOnAfter(i) ==
    LET r == ReturnBefore(i)
        more == r > 0 /\ trace[i].n < trace[r].n
    IN  IF i < Len(trace)
        THEN IF more
             THEN trace[i + 1].ev \in {"tool_start", "unknown"}
                  /\ trace[i + 1].n = trace[i].n + 1
             ELSE trace[i + 1].ev = "llm_call"
        ELSE IF more
             THEN pc = "dispatch" /\ idx = trace[i].n + 1
             ELSE pc = "loop" \/ (pc = "done" /\ exit = "exhausted")

AssistantAt == { k \in 1..Len(RunMessages) : RunMessages[k].role = "assistant" }

\* the messages between the assistant message at k and the next one
AnswersTo(k) ==
    LET later == { j \in AssistantAt : j > k }
        end == IF later = {} THEN Len(RunMessages)
               ELSE (CHOOSE j \in later : \A l \in later : j <= l) - 1
    IN  SubSeq(RunMessages, k + 1, end)

C7_Sequential ==
    /\ \A i \in 1..(Len(trace) - 1) :
           /\ trace[i].ev = "tool_start" =>
                  /\ trace[i + 1].ev = "tool_end"
                  /\ trace[i + 1].id = trace[i].id
           /\ trace[i].ev = "llm_call" => trace[i + 1].ev \in {"llm_return", "llm_raise"}
    /\ pc = "tool" <=> (trace # <<>> /\ Last(trace).ev = "tool_start")
    /\ pc = "llm" <=> (trace # <<>> /\ Last(trace).ev = "llm_call")
    /\ \A i \in 2..Len(trace) :
           /\ trace[i].ev \in {"tool_start", "unknown"} =>
                  \/ trace[i - 1].ev = "llm_return" /\ trace[i].n = 1
                  \/ trace[i - 1].ev \in {"tool_end", "unknown"}
                         /\ trace[i].n = trace[i - 1].n + 1
           /\ trace[i].ev = "llm_call" =>
                  /\ trace[i - 1].ev \in {"tool_end", "unknown"}
                  /\ trace[i - 1].n = trace[ReturnBefore(i)].n
    /\ \A i \in 1..Len(trace) :
           (trace[i].ev \in {"tool_start", "unknown"} /\ ReturnBefore(Len(trace) + 1) < i) =>
               trace[i].id = response.tool_calls[trace[i].n].id
    /\ \A k \in AssistantAt :
           LET calls == RunMessages[k].tool_calls
               answers == AnswersTo(k)
           IN  /\ Len(answers) <= Len(calls)
               /\ \A j \in 1..Len(answers) :
                      /\ answers[j].role = "tool"
                      /\ answers[j].tool_call_id = calls[j].id
                      /\ answers[j].name = calls[j].name
               /\ (\E j \in AssistantAt : j > k) => Len(answers) = Len(calls)

\* a second step started after both calls of the first response were answered
C7_Witness ==
    /\ pc = "llm"
    /\ Len(RunMessages) = 3
    /\ Len(RunMessages[1].tool_calls) = 2
    /\ RunMessages[1].tool_calls[1].name # RunMessages[1].tool_calls[2].name

(***************************************************************************)
(* C8 as stated: for every tool call whose function name is no key of the  *)
(* agent's tool mapping, the loop runs no tool code, appends the tool      *)
(* message 'Error: Unknown tool: <name>' tagged with the call's id, and    *)
(* goes on with the remaining calls and steps.                             *)
(***************************************************************************)
C8_UnknownToolContinues ==
    \A i \in 1..Len(trace) :
        trace[i].ev = "unknown" =>
            /\ tools \cap {trace[i].name} = {}
            /\ HasToolMessage(trace[i].id, trace[i].name,
                              "Error: Unknown tool: " \o trace[i].name)
            /\ GoesOnAfter(i)

(***************************************************************************)
(* C9: every tool message of the history carries the id of a tool call of  *)
(* the most recent assistant message before it, and no tool message comes  *)
(* before the first assistant message.                                     *)
(***************************************************************************)
C9_ToolMessagesAnswerLastAssistant ==
    \A i \in 1..Len(messages) :
        messages[i].role = "tool" =>
            LET prior == { j \in 1..(i - 1) : messages[j].role = "assistant" }
            IN  /\ prior # {}
                /\ LET a == CHOOSE j \in prior : \A l \in prior : l <= j
                   IN  \E c \in 1..Len(messages[a].tool_calls) :
                           messages[a].tool_calls[c].id = messages[i].tool_call_id

\* a history with the tool messages of two steps, each after the assistant
\* message of its own step
C9_Witness ==
    /\ Len(RunMessages) = 4
    /\ RunMessages[2].role = "tool"
    /\ RunMessages[3].role = "assistant"
    /\ RunMessages[4].role = "tool"
    /\ RunMessages[4].tool_call_id # RunMessages[2].tool_call_id

(***************************************************************************)
(* C10: every ToolResult run returns, on each of its exit paths and for    *)
(* every agent type, has the metadata keys agent_type (the agent's type),  *)
(* steps_used (an integer >= 0) and output_files (a list).                 *)
(***************************************************************************)
C10_ResultMetadata ==
    exit # "none" =>
        /\ {"agent_type", "steps_used", "output_files"} \subseteq DOMAIN result.metadata
        /\ result.metadata.agent_type = agent_type
        /\ result.metadata.steps_used \in 0..max_steps
        /\ result.metadata.output_files \in Seq({"/ws/a.txt"})
        /\ pc = "done" =>
               /\ result.metadata.steps_used = step
               /\ result.metadata.output_files = output_files

\* a searcher run that ended by a caught exception after a file was written
C10_Witness ==
    /\ pc = "done"
    /\ exit = "exception"
    /\ agent_type = "searcher"
    /\ output_files # <<>>

(***************************************************************************)
(* C11: a model call that fails, at any step, does not make run raise: the *)
(* exception is caught by the outermost handler, it is the last thing the  *)
(* run does, and run returns a failed ToolResult whose error is 'Agent     *)
(* execution error: ' followed by the exception text, with the number of   *)
(* the failing step as steps_used and without abnormal_termination in its  *)
(* metadata; a returned result carries abnormal_termination exactly when   *)
(* the run ended by a response without tool calls, so the two are told     *)
(* apart.                                                                  *)
(***************************************************************************)
C11_TransportFailure ==
    /\ \A i \in 1..Len(trace) :
           trace[i].ev = "llm_raise" =>
               /\ i = Len(trace)
               /\ trace[i - 1].ev = "llm_call"
               /\ pc = "done"
               /\ exit = "exception"
               /\ ~result.success
               /\ result.content = ""
               /\ result.error = "Agent execution error: " \o ExcText
               /\ "abnormal_termination" \notin DOMAIN result.metadata
               /\ result.metadata.steps_used = LlmCalls
    /\ pc = "done" =>
           ("abnormal_termination" \in DOMAIN result.metadata <=> exit = "abnormal")

\* the model call of the second step raised, after the tool call of the
\* first step was answered
C11_Witness ==
    /\ pc = "done"
    /\ exit = "exception"
    /\ Last(trace).ev = "llm_raise"
    /\ LlmCalls = 2
    /\ Last(messages).role = "tool"

(***************************************************************************)
(* C12 as stated: every ToolResult a tool produces or run returns has its  *)
(* error set exactly when success is FALSE, the completion tool's result   *)
(* for success = FALSE included.                                           *)
(***************************************************************************)
C12_ErrorIffFailure ==
    /\ (trace # <<>> /\ Last(trace).ev \in {"tool_end", "unknown"}) =>
           (tool_result.error # None <=> ~tool_result.success)
    /\ pc = "done" => (result.error # None <=> ~result.success)

(***************************************************************************)
(* The workspace and the file tools exercised on their own: a sequence of  *)
(* calls of is_path_safe and of the execute of ReadTool, WriteTool and     *)
(* EditTool on one workspace.                                              *)
(***************************************************************************)
\* number of calls made on the workspace
MaxOps == 2

\* an agent that is constructed and never run
AgentIdle ==
    /\ agent_type = "orchestrator"
    /\ tools = OrchestratorTools
    /\ max_steps = 0
    /\ messages = InitialMessages
    /\ step = 0
    /\ output_files = <<>>
    /\ response = NoResponse
    /\ idx = 0
    /\ tool_result = NoResult
    /\ pc = "idle"
    /\ result = NoResult
    /\ exit = "none"
    /\ runs = 0
    /\ appended = 0
    /\ trace = <<>>

FileInit == ToolsIdle /\ AgentIdle

FileTools == {"read_file", "write_file", "edit_file"}

\* a call made, what it gave and the file system it left
Called(c, out, f) ==
    /\ invocation' = c
    /\ execution' = out
    /\ fs_before' = fs
    /\ fs' = f
    /\ ops' = ops + 1
    /\ UNCHANGED agentvars

\* workspace.is_path_safe(filepath)
PathCheck ==
    /\ ops < MaxOps
    /\ UNCHANGED <<workflow, delegation, shell>>
    /\ \E p \in PathInputs :
         Called(ToolCallOf("is_path_safe", [filepath |-> p]),
                [raised |-> FALSE, result |-> is_path_safe(p)], fs)

\* await ReadTool(workspace).execute(filepath, start_line, end_line)
ReadCall ==
    /\ ops < MaxOps
    /\ UNCHANGED <<workflow, delegation, shell>>
    /\ \E p \in PathInputs, r \in ReadRanges :
         Called(ToolCallOf("read_file",
                           [filepath |-> p, start_line |-> r[1], end_line |-> r[2]]),
                ReadExecute(fs, p, r[1], r[2]), fs)

\* await WriteTool(workspace).execute(filepath, content, mode)
WriteCall ==
    /\ ops < MaxOps
    /\ UNCHANGED <<workflow, delegation, shell>>
    /\ \E p \in PathInputs, content \in WriteContents, mode \in WriteModes :
         LET w == WriteExecute(fs, p, content, mode)
         IN  Called(ToolCallOf("write_file",
                               [filepath |-> p, content |-> content, mode |-> mode]),
                    w.out, w.fs)

\* await EditTool(workspace).execute(filepath, old_string, new_string)
EditCall ==
    /\ ops < MaxOps
    /\ UNCHANGED <<workflow, delegation, shell>>
    /\ \E p \in PathInputs, old_string \in OldStrings, new_string \in NewStrings :
         LET e == EditExecute(fs, p, old_string, new_string)
         IN  Called(ToolCallOf("edit_file",
                               [filepath |-> p, old_string |-> old_string,
                                new_string |-> new_string]),
                    e.out, e.fs)

FileNext ==
    \/ PathCheck
    \/ ReadCall
    \/ WriteCall
    \/ EditCall

FileSpec == FileInit /\ [][FileNext]_vars

\* the canonical location of a path: a relative path taken against the
\* workspace root, ".." segments and symbolic links resolved
Canonical(p) == RealPath(<<>>, IF p.abs THEN p.parts ELSE WorkspaceDir \o p.parts)

\* a location is the workspace root or lies below it
Within(loc) == IsRelativeTo(loc, WorkspaceDir)

(***************************************************************************)
(* C13 as stated: for every path string, relative or absolute,             *)
(* is_path_safe is TRUE exactly when the canonical location of the path is *)
(* the workspace root or a descendant of it.                               *)
(***************************************************************************)
C13_SafeIffWithin ==
    invocation.tool = "is_path_safe" =>
        (execution.result <=> Within(Canonical(invocation.arguments.filepath)))

(***************************************************************************)
(* C14 as stated: Read, Write and Edit called with a path whose location   *)
(* is outside the workspace return a failed ToolResult whose error says    *)
(* that the path is outside the workspace, do not raise, and leave the     *)
(* file system as it was.                                                  *)
(***************************************************************************)
C14_OutsideIsDenied ==
    (invocation.tool \in FileTools
         /\ ~Within(Canonical(invocation.arguments.filepath))) =>
        /\ ~execution.raised
        /\ ~execution.result.success
        /\ execution.result.error = "Access denied: "
               \o PathStr(invocation.arguments.filepath) \o " is outside workspace"
        /\ fs = fs_before

(***************************************************************************)
(* Observations of the last call of a file tool.                           *)
(***************************************************************************)
\* the location the call's path leads to
TargetLoc == OsLoc(resolve_path(invocation.arguments.filepath))

\* what the call found there, and what it left there
TargetBefore == Lookup(fs_before, TargetLoc)
TargetAfter == Lookup(fs, TargetLoc)

\* the call got past the workspace check and found a regular file
OnFile(tool) ==
    /\ invocation.tool = tool
    /\ PathAllowed(invocation.arguments.filepath)
    /\ TargetBefore.kind = "file"

(***************************************************************************)
(* C15: an edit of a file in which old_string occurs k times (counted as   *)
(* str.count does) succeeds if and only if k = 1; for k = 0 it returns the *)
(* not-found failure, for k >= 2 a failure whose message states k; in both *)
(* failure cases the file system is left as it was, and a successful edit  *)
(* changes the file.                                                       *)
(***************************************************************************)
C15_EditUniqueness ==
    OnFile("edit_file") =>
        LET k == Count(TargetBefore.content, invocation.arguments.old_string)
            r == execution.result
        IN  /\ ~execution.raised
            /\ r.success <=> k = 1
            /\ k = 0 =>
                   /\ r.error = "old_string not found in file: "
                                    \o Text(invocation.arguments.old_string)
                   /\ fs = fs_before
            /\ k >= 2 =>
                   /\ r.error = "old_string appears " \o ToString(k)
                                    \o " times in file. It must be unique to prevent "
                                    \o "accidental replacements."
                   /\ fs = fs_before
            /\ k = 1 =>
                   /\ r.error = None
                   /\ TargetAfter = File(Replace(TargetBefore.content,
                                                 invocation.arguments.old_string,
                                                 invocation.arguments.new_string))

\* an edit refused because old_string occurs twice in the file
C15_Witness ==
    /\ OnFile("edit_file")
    /\ Count(TargetBefore.content, invocation.arguments.old_string) = 2
    /\ ~execution.result.success
    /\ fs = fs_before

WorkflowPaths ==
    { PathOf(FALSE, <<"a">>), PathOf(FALSE, <<"d", "a">>), PathOf(TRUE, <<"ws", "a">>) }

WorkflowA == { <<"a">>, <<"a", "b">>, <<"1">>, <<" ">>, <<NL>> }
WorkflowB == { <<>>, <<"b">>, <<"c", "a">>, <<"b", NL, "c">> }
WorkflowX == { <<>>, <<"x">> }

WorkflowInit ==
    /\ AgentIdle
    /\ fs = InitialFs
    /\ fs_before = InitialFs
    /\ invocation = NoCall
    /\ execution = NoOutcome
    /\ ops = 0
    /\ delegation = NoDelegation
    /\ shell = NoShell
    /\ \E p \in WorkflowPaths, A \in WorkflowA, B \in WorkflowB, X \in WorkflowX :
         /\ ~Contains(B, A)
         /\ Lookup(InitialFs, OsLoc(resolve_path(p))).kind = "absent"
         /\ workflow = [p |-> p, A |-> A, B |-> B, X |-> X, results |-> <<>>]

\* a step of the script: the call is made and its result kept
Scripted(c, out, f) ==
    /\ Called(c, out, f)
    /\ workflow' = [workflow EXCEPT !.results = Append(@, out.result)]
    /\ UNCHANGED <<delegation, shell>>

\* write(p, A, create)
WorkflowWrite ==
    /\ ops = 0
    /\ LET w == WriteExecute(fs, workflow.p, workflow.A, "create")
       IN  Scripted(ToolCallOf("write_file",
                               [filepath |-> workflow.p, content |-> workflow.A,
                                mode |-> "create"]),
                    w.out, w.fs)

\* edit(p, A -> B)
WorkflowEdit ==
    /\ ops = 1
    /\ LET e == EditExecute(fs, workflow.p, workflow.A, workflow.B)
       IN  Scripted(ToolCallOf("edit_file",
                               [filepath |-> workflow.p, old_string |-> workflow.A,
                                new_string |-> workflow.B]),
                    e.out, e.fs)

\* read(p)
WorkflowRead ==
    /\ ops = 2
    /\ Scripted(ToolCallOf("read_file",
                           [filepath |-> workflow.p, start_line |-> Omitted,
                            end_line |-> Omitted]),
                ReadExecute(fs, workflow.p, Omitted, Omitted), fs)

\* edit(p, A -> X)
WorkflowEditAgain ==
    /\ ops = 3
    /\ LET e == EditExecute(fs, workflow.p, workflow.A, workflow.X)
       IN  Scripted(ToolCallOf("edit_file",
                               [filepath |-> workflow.p, old_string |-> workflow.A,
                                new_string |-> workflow.X]),
                    e.out, e.fs)

WorkflowNext ==
    \/ WorkflowWrite
    \/ WorkflowEdit
    \/ WorkflowRead
    \/ WorkflowEditAgain

WorkflowSpec == WorkflowInit /\ [][WorkflowNext]_vars

\* the characters Read puts in front of a line
PrefixChars == {" "} \cup { ToString(d) : d \in 0..9 } \cup { LineMark[i] : i \in 1..Len(LineMark) }

\* a text without line break
SingleLine(text) == \A i \in 1..Len(text) : text[i] # NL

\* a text without line break and without a character of the line prefix
Plain(text) == \A i \in 1..Len(text) : text[i] \notin PrefixChars \cup {NL}

\* the parts of the script that hold for all texts: the write and the first
\* edit succeed, the file then holds B, the read succeeds, the second edit
\* fails as not found and leaves the file system as it was
WorkflowOutline ==
    LET r == workflow.results
    IN  /\ Len(r) >= 1 => r[1].success
        /\ Len(r) >= 2 => r[2].success
        /\ Len(r) >= 3 => r[3].success
        /\ Len(r) \in {2, 3} => TargetAfter = File(workflow.B)
        /\ Len(r) >= 4 =>
               /\ ~r[4].success
               /\ r[4].error = "old_string not found in file: " \o Text(workflow.A)
               /\ fs = fs_before
               /\ TargetAfter = File(workflow.B)

DEFAULT_MAX_RESULTS == 10
MAX_RESULTS_LIMIT == 20
DEFAULT_SEARCH_DEPTH == "advanced"
ALLOWED_DEPTHS == <<"basic", "advanced">>

\* s.strip() of the texts used as arguments
Strip(s) == IF s \in {" ", "\n", " \n"} THEN "" ELSE s

\* a check that takes only the empty text for blank
IsBlankEmptyOnly(s) == s = ""

\* not s or not s.strip()
IsBlank(s) == s = "" \/ Strip(s) = ""

\* mapping.get(key, default)
Get(mapping, key, default) == IF key \in DOMAIN mapping THEN mapping[key] ELSE default

\* a or b, for texts
OrElse(a, b) == IF a # "" THEN a ELSE b

\* the "- {title}: {snippet}" line of one result
SummaryLine(r) ==
    "- " \o OrElse(Get(r, "title", ""), Get(r, "url", "Unknown source"))
         \o ": " \o Strip(OrElse(Get(r, "content", ""), Get(r, "snippet", "")))

RECURSIVE SummaryLines(_)
SummaryLines(results) ==
    IF results = <<>> THEN ""
    ELSE "\n" \o SummaryLine(Head(results)) \o SummaryLines(Tail(results))

\* TavilySearchTool._build_summary
BuildSummary(query, results) ==
    IF results = <<>>
    THEN "No web results found for '" \o query \o "'."
    ELSE "Found " \o ToString(Len(results)) \o " results for '" \o query
         \o "'. Top sources:"
         \o SummaryLines(SubSeq(results, 1, IF Len(results) < 3 THEN Len(results) ELSE 3))

\* an exception that leaves execute
Raised(text) == [raised |-> TRUE, result |-> ToolResult(FALSE, "", text, EmptyMeta)]

Hit(title, content) == [title |-> title, content |-> content]

SearchReplies ==
    { [kind |-> "raise", value |-> EmptyMeta],
      [kind |-> "none", value |-> EmptyMeta],
      [kind |-> "mapping", value |-> [answer |-> "x"]],
      [kind |-> "mapping", value |-> [results |-> <<>>]],
      [kind |-> "mapping", value |-> [results |-> << Hit("t1", "c1") >>]],
      [kind |-> "mapping",
       value |-> [results |-> << Hit("t1", "c1"), [url |-> "u2", snippet |-> "s2"],
                                 [content |-> "c3"], Hit("t4", "c4") >>]] }

SearchQueries == { "", " ", "q" }
SearchCounts == { Omitted, Given(0), Given(5), Given(21) }
SearchDepths == { Omitted, Given("basic"), Given("deep") }

\* TavilySearchTool.execute(query, max_results, search_depth), the client
\* answering with `reply`
SearchExecute(query, max_results, search_depth, reply) ==
    LET count == IF max_results = Omitted THEN DEFAULT_MAX_RESULTS ELSE max_results[1]
        depth == IF search_depth = Omitted THEN DEFAULT_SEARCH_DEPTH ELSE search_depth[1]
    IN  IF IsBlank(query) THEN Failure("Query must not be empty")
        ELSE IF ~(1 <= count /\ count <= MAX_RESULTS_LIMIT)
        THEN Failure("max_results must be between 1 and " \o ToString(MAX_RESULTS_LIMIT))
        ELSE IF \A i \in 1..Len(ALLOWED_DEPTHS) : ALLOWED_DEPTHS[i] # depth
        THEN Failure("search_depth must be one of "
                     \o ALLOWED_DEPTHS[1] \o ", " \o ALLOWED_DEPTHS[2])
        ELSE IF reply.kind = "raise"
        THEN Failure("Tavily search failed: " \o ExcText)
        ELSE IF reply.kind # "mapping"
        THEN Raised("'NoneType' object has no attribute 'get'")
        ELSE LET results == Get(reply.value, "results", <<>>)
             IN  Returned(ToolResult(TRUE, BuildSummary(query, results), None,
                                     [query |-> query, max_results |-> count,
                                      search_depth |-> depth,
                                      result_count |-> Len(results),
                                      response |-> reply.value]))

(***************************************************************************)
(* The delegation tool (researcher.tools.agent_tool, CallAgentTool).       *)
(*                                                                         *)
(* execute is followed call by call: constructing the nested agent, the    *)
(* start instrumentation, the nested run, the completion instrumentation   *)
(* and the except handler.  The user interface and the trace logger are    *)
(* attached or not; each call into them returns or raises.                 *)
(***************************************************************************)
\* calls of execute followed in one behaviour (the tools keep no state
\* from one call to the next)
MaxDelegations == 1

AgentTypes == { "searcher", "analyzer", "writer", "planner" }
KnownAgentTypes == { "searcher", "analyzer", "writer" }
TaskDescriptions == { "", " ", "do" }
DelegatedSteps == { 1, 2 }

\* what _create_agent can raise for a type: nothing ("") or an exception text
CreationFailures(at) ==
    IF at \in KnownAgentTypes THEN { "", ExcText } ELSE { "Unknown agent type: " \o at }

\* the results BaseAgent.run can return for a nested agent of max_steps m
NestedResults(at, m) ==
    { CompletionResult(ToolResult(ok, "summary", None, [explicitly_completed |-> TRUE]),
                       at, k, files) :
          ok \in BOOLEAN, k \in 1..m, files \in { <<>>, << "/ws/a.txt" >> } }
    \cup { AbnormalResult([content |-> c, tool_calls |-> <<>>], at, k, <<>>) :
               c \in Texts, k \in 1..m }
    \cup { ExhaustedResult(m, at, m, <<>>) }
    \cup { ExceptionResult(ExcText, at, k, <<>>) : k \in 1..m }

\* the result of the except branch around _create_agent
CreationFailed(at, text) ==
    ToolResult(FALSE, "", "Failed to create " \o at \o " agent: " \o text,
               [agent_type |-> at])

\* the result of the except branch around the nested run
RunFailed(at, text) ==
    ToolResult(FALSE, "", "Agent execution failed: " \o text,
               [agent_type |-> at, exception |-> text])

\* whether a call into the instrumentation is made at all
Instrumented == delegation.ui \/ delegation.trace_logger

\* execute ends: its outcome is what the caller gets
DelegationEnds(d, out) ==
    /\ delegation' = [d EXCEPT !.pc = "done"]
    /\ execution' = out
    /\ UNCHANGED <<agentvars, fs, fs_before, invocation, ops, workflow, shell>>

\* execute goes on to its next call
DelegationGoes(d) ==
    /\ delegation' = d
    /\ UNCHANGED <<agentvars, fs, fs_before, invocation, execution, ops, workflow, shell>>

\* call_agent.execute(agent_type, task_description, max_steps) up to
\* agent = self._create_agent(agent_type, max_steps)
DelegationExecute ==
    /\ delegation.pc \in {"idle", "done"}
    /\ ops < MaxDelegations
    /\ \E at \in AgentTypes, td \in TaskDescriptions, m \in DelegatedSteps,
          ui \in BOOLEAN, tl \in BOOLEAN :
         \E text \in CreationFailures(at) :
            LET d == [NoDelegation EXCEPT !.agent_type = at, !.task_description = td,
                                          !.max_steps = m, !.ui = ui,
                                          !.trace_logger = tl]
            IN  /\ invocation' = ToolCallOf("call_agent",
                                            [agent_type |-> at, task_description |-> td,
                                             max_steps |-> m])
                /\ ops' = ops + 1
                /\ fs_before' = fs
                /\ UNCHANGED <<agentvars, fs, workflow, shell>>
                /\ IF IsBlank(td)
                   THEN /\ delegation' = [d EXCEPT !.pc = "done"]
                        /\ execution' = Failure("task_description must not be empty")
                   ELSE IF text # ""
                   THEN /\ delegation' = [d EXCEPT !.pc = "done", !.raised_in = "create",
                                                   !.e = text]
                        /\ execution' = Returned(CreationFailed(at, text))
                   ELSE /\ delegation' = [d EXCEPT !.pc = "start", !.created = TRUE]
                        /\ execution' = NoOutcome

\* _setup_subagent_ui, ui.log_agent_start, trace_logger.log_agent_start
DelegationStart ==
    /\ delegation.pc = "start"
    /\ \E raises \in BOOLEAN :
         /\ raises => Instrumented
         /\ IF raises
            THEN DelegationEnds([delegation EXCEPT !.raised_in = "start", !.e = ExcText],
                                Raised(ExcText))
            ELSE DelegationGoes([delegation EXCEPT !.pc = "run"])

\* result = await agent.run(full_task)
DelegationRun ==
    /\ delegation.pc = "run"
    /\ \E r \in NestedResults(delegation.agent_type, delegation.max_steps) :
         DelegationGoes([delegation EXCEPT !.pc = "complete", !.ran = TRUE, !.nested = r])

\* ui.log_agent_complete, trace_logger.log_agent_complete; return result
DelegationComplete ==
    /\ delegation.pc = "complete"
    /\ \E raises \in BOOLEAN :
         /\ raises => Instrumented
         /\ IF raises
            THEN DelegationGoes([delegation EXCEPT !.pc = "handler",
                                                   !.raised_in = "complete", !.e = ExcText])
            ELSE DelegationEnds(delegation, Returned(delegation.nested))

\* except Exception as e: the instrumentation called again, then the
\* failure result returned
DelegationHandler ==
    /\ delegation.pc = "handler"
    /\ \E raises \in BOOLEAN :
         IF raises
         THEN DelegationEnds([delegation EXCEPT !.raised_in = "handler"], Raised(ExcText))
         ELSE DelegationEnds(delegation,
                             Returned(RunFailed(delegation.agent_type, delegation.e)))

\* await TavilySearchTool(client).execute(query, max_results, search_depth)
SearchCall ==
    /\ delegation.pc \in {"idle", "done"}
    /\ ops < MaxDelegations
    /\ UNCHANGED <<workflow, delegation, shell>>
    /\ \E query \in SearchQueries, max_results \in SearchCounts,
          search_depth \in SearchDepths, reply \in SearchReplies :
         Called(ToolCallOf("web_search",
                           [query |-> query, max_results |-> max_results,
                            search_depth |-> search_depth]),
                SearchExecute(query, max_results, search_depth, reply), fs)

DelegationNext ==
    \/ DelegationExecute
    \/ DelegationStart
    \/ DelegationRun
    \/ DelegationComplete
    \/ DelegationHandler
    \/ SearchCall

DelegationSpec == FileInit /\ [][DelegationNext]_vars

\* an execute of one of the two tools has ended
Ended(tool) ==
    /\ invocation.tool = tool
    /\ tool = "call_agent" => delegation.pc = "done"

(***************************************************************************)
(* C18 as stated: execute of a concrete tool never propagates an exception *)
(* to its caller; every internal failure, a failing instrumentation call   *)
(* of the delegation tool and a provider response of unexpected shape in   *)
(* Search included, comes back as a result with success = false and an     *)
(* error message.                                                          *)
(***************************************************************************)
C18_ExecuteNeverRaises ==
    (Ended("call_agent") \/ Ended("web_search")) =>
        /\ ~execution.raised
        /\ ~execution.result.success => execution.result.error # None

(***************************************************************************)
(* C19 as stated: when the delegation tool runs a nested agent and the     *)
(* nested run returns, the tool's result is exactly the nested agent's     *)
(* final result (same success, content, error and metadata).               *)
(***************************************************************************)
C19_NestedResultVerbatim ==
    (Ended("call_agent") /\ delegation.ran) =>
        /\ ~execution.raised
        /\ execution.result = delegation.nested

(***************************************************************************)
(* C20 as stated: an exception raised while the delegation tool constructs *)
(* the nested agent (an unknown agent type included) or runs it becomes a  *)
(* failed result that carries the exception text in its metadata, and      *)
(* never leaves execute towards the parent loop.                           *)
(***************************************************************************)
C20_DelegationFailureCarried ==
    (Ended("call_agent") /\ delegation.raised_in # "none") =>
        /\ ~execution.raised
        /\ ~execution.result.success
        /\ "exception" \in DOMAIN execution.result.metadata
        /\ execution.result.metadata.exception = delegation.e

(***************************************************************************)
(* The shell tool (researcher.tools.bash_tool, BashTool).                  *)
(*                                                                         *)
(* A command is given with what it does when a shell runs it: how long it  *)
(* runs (seconds), the return code and the output it ends with, and        *)
(* whether the shell runs it in a child process of its own, which either   *)
(* inherits the output pipes ("piped") or has its output redirected        *)
(* ("detached").  Without a child the shell process is the command.        *)
(***************************************************************************)
DEFAULT_TIMEOUT == 120
MAX_TIMEOUT == 600
MAX_OUTPUT_LENGTH == 50000

Behaviour(text, duration, returncode, stdout, stderr, child) ==
    [text |-> text, duration |-> duration, returncode |-> returncode,
     stdout |-> stdout, stderr |-> stderr, child |-> child]

ShellCommands ==
    { Behaviour("", 0, 0, "", "", "none"),
      Behaviour(" ", 0, 0, "", "", "none"),
      Behaviour("true", 0, 0, "", "", "none"),
      Behaviour("echo a", 0, 0, "a\n", "", "none"),
      Behaviour("exit 3", 0, 3, "", "", "none"),
      Behaviour("echo out; echo err >&2; exit 2", 0, 2, "out\n", "err\n", "none"),
      Behaviour("ls nowhere", 0, 2, "", "err\n", "piped"),
      Behaviour("kill -9 $$", 0, 0 - 9, "", "", "none"),
      Behaviour("exec sleep 5", 5, 0, "", "", "none"),
      Behaviour("sleep 5; echo hi", 5, 0, "hi\n", "", "piped"),
      Behaviour("sleep 5 >/dev/null 2>&1; echo hi", 5, 0, "hi\n", "", "detached"),
      Behaviour("exec sleep 700", 700, 0, "", "", "none") }

ShellTimeouts == { Omitted, Given(0), Given(1), Given(5), Given(600), Given(601) }

\* output cut at MAX_OUTPUT_LENGTH characters
Truncated(text) ==
    IF Len(text) > MAX_OUTPUT_LENGTH
    THEN SubSeq(text, 1, MAX_OUTPUT_LENGTH)
         \o "\n\n[Output truncated at " \o ToString(MAX_OUTPUT_LENGTH) \o " characters]"
    ELSE text

\* combined_output of _run_command
CombinedOutput(stdout, stderr) ==
    LET both == IF stdout # "" /\ stderr # "" THEN stdout \o "\n--- stderr ---\n" \o stderr
                ELSE stdout \o stderr
    IN  IF both = "" THEN "(no output)" ELSE both

\* a command that counts as succeeded whatever its exit code
ExitSuccessAlways(exit_code) == TRUE

\* success = exit_code == 0
ExitSuccess(exit_code) == exit_code = 0

\* the result built after communicate() returned
FinishedResult(command, returncode, out, err) ==
    LET exit_code == returncode
        stdout == Truncated(out)
        stderr == Truncated(err)
        metadata == [command |-> command, exit_code |-> exit_code, stdout |-> stdout,
                     stderr |-> stderr, timed_out |-> FALSE]
    IN  IF ExitSuccess(exit_code)
        THEN ToolResult(TRUE, CombinedOutput(stdout, stderr), None, metadata)
        ELSE ToolResult(FALSE, CombinedOutput(stdout, stderr),
                        "Command exited with code " \o ToString(exit_code), metadata)

\* a timeout reported without its flag
TimedOutResultUnflagged(command, timeout) ==
    ToolResult(FALSE, "", "Command timed out after " \o ToString(timeout) \o " seconds",
               [command |-> command, timeout |-> timeout, timed_out |-> FALSE])

\* the result returned from the except asyncio.TimeoutError branch
TimedOutResult(command, timeout) ==
    ToolResult(FALSE, "", "Command timed out after " \o ToString(timeout) \o " seconds",
               [command |-> command, timeout |-> timeout, timed_out |-> TRUE])

\* the result when create_subprocess_shell raised
StartFailedResult(command) ==
    ToolResult(FALSE, "", "Failed to start command: " \o ExcText, [command |-> command])

\* execute ends
ShellEnds(sh, out) ==
    /\ shell' = [sh EXCEPT !.pc = "done"]
    /\ execution' = out

\* await BashTool(workspace).execute(command, timeout) up to
\* asyncio.create_subprocess_shell
ShellExecute ==
    /\ shell.pc \in {"idle", "done"}
    /\ ops < MaxDelegations
    /\ \E b \in ShellCommands, timeout \in ShellTimeouts, starts \in BOOLEAN :
         LET t == IF timeout = Omitted THEN DEFAULT_TIMEOUT ELSE timeout[1]
             sh == [NoShell EXCEPT !.behaviour = b, !.timeout = t]
         IN  /\ invocation' = ToolCallOf("execute_shell",
                                         [command |-> b.text, timeout |-> timeout])
             /\ ops' = ops + 1
             /\ fs_before' = fs
             /\ UNCHANGED <<agentvars, fs, workflow, delegation>>
             /\ IF IsBlank(b.text)
                THEN ShellEnds(sh, Failure("Command must not be empty"))
                ELSE IF t < 1 \/ t > MAX_TIMEOUT
                THEN ShellEnds(sh, Failure("Timeout must be between 1 and "
                                           \o ToString(MAX_TIMEOUT) \o " seconds"))
                ELSE IF ~starts
                THEN ShellEnds(sh, Returned(StartFailedResult(b.text)))
                ELSE /\ shell' = [sh EXCEPT !.pc = "running", !.started = TRUE,
                                            !.procs = [sh |-> "running",
                                                       child |-> IF b.child = "none"
                                                                 THEN "none"
                                                                 ELSE "running"]]
                     /\ execution' = NoOutcome

\* communicate() returns before the timeout: the command has ended
ShellFinishes ==
    /\ shell.pc = "running"
    /\ shell.behaviour.duration <= shell.timeout
    /\ LET b == shell.behaviour
       IN  ShellEnds([shell EXCEPT !.procs = [sh |-> "exited",
                                              child |-> IF b.child = "none" THEN "none"
                                                        ELSE "exited"]],
                     Returned(FinishedResult(b.text, b.returncode, b.stdout, b.stderr)))
    /\ UNCHANGED <<agentvars, fs, fs_before, invocation, ops, workflow, delegation>>

\* asyncio.TimeoutError: process.kill(); await process.wait().  The signal
\* goes to the shell process alone.  A child whose output is redirected runs
\* on; a child that holds the pipes runs on, or has ended when wait()
\* returned only after the pipes were closed.
ShellTimeout ==
    /\ shell.pc = "running"
    /\ shell.behaviour.duration >= shell.timeout
    /\ \E child \in {"none", "running", "exited"} :
         /\ child = "none" <=> shell.behaviour.child = "none"
         /\ child = "exited" => shell.behaviour.child = "piped"
         /\ ShellEnds([shell EXCEPT !.procs = [sh |-> "exited", child |-> child]],
                      Returned(TimedOutResult(shell.behaviour.text, shell.timeout)))
    /\ UNCHANGED <<agentvars, fs, fs_before, invocation, ops, workflow, delegation>>

ShellNext ==
    \/ ShellExecute
    \/ ShellFinishes
    \/ ShellTimeout

ShellSpec == FileInit /\ [][ShellNext]_vars

\* a shell call has returned or raised
ShellEnded == invocation.tool = "execute_shell" /\ shell.pc = "done"

(***************************************************************************)
(* C21: a shell call whose command is still running when the timeout       *)
(* expires returns success = false with metadata.timed_out = true and an   *)
(* error naming the timeout, and when the call returns the process it      *)
(* started is no longer running.                                           *)
(***************************************************************************)
C21_ShellTimeout ==
    (ShellEnded /\ shell.started /\ shell.behaviour.duration > shell.timeout) =>
        /\ ~execution.raised
        /\ ~execution.result.success
        /\ execution.result.metadata.timed_out = TRUE
        /\ execution.result.error
               = "Command timed out after " \o ToString(shell.timeout) \o " seconds"
        /\ shell.procs.sh = "exited"

\* the default timeout expired on a command that runs longer
C21_Witness ==
    /\ ShellEnded
    /\ shell.started
    /\ invocation.arguments.timeout = Omitted
    /\ shell.behaviour.duration > shell.timeout
    /\ shell.procs.sh = "exited"

(***************************************************************************)
(* C22: for a shell command that finishes before the timeout, success is   *)
(* true if and only if the exit status is zero; a nonzero status n gives   *)
(* success = false with metadata.exit_code = n, the captured output in     *)
(* content and timed_out = false, and no exception.                        *)
(***************************************************************************)
C22_ShellExitStatus ==
    (ShellEnded /\ shell.started /\ shell.behaviour.duration < shell.timeout) =>
        LET b == shell.behaviour
            r == execution.result
        IN  /\ ~execution.raised
            /\ r.success <=> b.returncode = 0
            /\ r.metadata.exit_code = b.returncode
            /\ r.metadata.timed_out = FALSE
            /\ r.metadata.stdout = b.stdout
            /\ r.metadata.stderr = b.stderr
            /\ r.content = CombinedOutput(b.stdout, b.stderr)
            /\ b.returncode # 0 =>
                   r.error = "Command exited with code " \o ToString(b.returncode)

\* a command that wrote to both streams and ended with a nonzero status
C22_Witness ==
    /\ ShellEnded
    /\ shell.started
    /\ shell.behaviour.duration < shell.timeout
    /\ shell.behaviour.returncode = 2
    /\ shell.behaviour.stdout # ""
    /\ shell.behaviour.stderr # ""
    /\ ~execution.result.success

(***************************************************************************)
(* C29 as stated: on timeout the shell tool terminates the whole process   *)
(* group of the command: every process the command started, children of    *)
(* the shell included, is no longer running when the call returns.         *)
(***************************************************************************)
C29_ProcessGroupTerminated ==
    (ShellEnded /\ shell.started /\ "timeout" \in DOMAIN execution.result.metadata) =>
        /\ shell.procs.sh # "running"
        /\ shell.procs.child # "running"

(***************************************************************************)
(* Reading with line ranges: a workspace that holds one file, read with    *)
(* every pair of bounds around its line count.                             *)
(***************************************************************************)
MaxReads == 2

RangeTexts ==
    { <<>>, <<"x">>, <<"x", NL, "y", NL>>, <<"x", NL, "y", NL, "z">> }

RangeBounds == { Omitted } \cup { Given(k) : k \in (0 - 1)..4 }

RangeFile == PathOf(FALSE, <<"a">>)

RangeInit ==
    /\ AgentIdle
    /\ \E text \in RangeTexts :
         fs = [InitialFs EXCEPT ![OsLoc(resolve_path(RangeFile))] = File(text)]
    /\ fs_before = fs
    /\ invocation = NoCall
    /\ execution = NoOutcome
    /\ ops = 0
    /\ workflow = NoWorkflow
    /\ delegation = NoDelegation
    /\ shell = NoShell

\* await ReadTool(workspace).execute(filepath, start_line, end_line)
RangeRead ==
    /\ ops < MaxReads
    /\ UNCHANGED <<workflow, delegation, shell>>
    /\ \E start_line \in RangeBounds, end_line \in RangeBounds :
         Called(ToolCallOf("read_file",
                           [filepath |-> RangeFile, start_line |-> start_line,
                            end_line |-> end_line]),
                ReadExecute(fs, RangeFile, start_line, end_line), fs)

RangeNext == RangeRead

RangeSpec == RangeInit /\ [][RangeNext]_vars

\* a read of the file was made with at least one bound given
RangedRead ==
    /\ invocation.tool = "read_file"
    /\ (invocation.arguments.start_line # Omitted
            \/ invocation.arguments.end_line # Omitted)

\* the bounds of the last read, an omitted one standing for 1 or n
FirstLine == IF invocation.arguments.start_line = Omitted THEN 1
             ELSE invocation.arguments.start_line[1]
LastLine == IF invocation.arguments.end_line = Omitted
            THEN Len(ReadLines(TargetBefore.content))
            ELSE invocation.arguments.end_line[1]

(***************************************************************************)
(* C25 as stated: every concrete tool rejects, with a failed result and    *)
(* before any side effect, an argument outside the range or set its        *)
(* parameter schema declares; for the read tool: a start_line or end_line  *)
(* below 1 is rejected.                                                    *)
(***************************************************************************)
C25_BoundsBelowOneRejected ==
    (invocation.tool = "read_file"
        /\ \E b \in {invocation.arguments.start_line, invocation.arguments.end_line} :
               b # Omitted /\ b[1] < 1) =>
        /\ ~execution.raised
        /\ ~execution.result.success
        /\ execution.result.error # None
        /\ fs = fs_before

(***************************************************************************)
(* C27 as stated: a read with a line range on a file of n lines succeeds   *)
(* if and only if 1 <= start_line <= end_line <= n (an omitted bound       *)
(* standing for 1 or n); on success it returns exactly the lines           *)
(* start_line..end_line, each with its own 1-indexed line number; every    *)
(* other range is a validation failure.                                    *)
(***************************************************************************)
C27_RangeValidated ==
    RangedRead =>
        LET lines == ReadLines(TargetBefore.content)
            valid == 1 <= FirstLine /\ FirstLine <= LastLine /\ LastLine <= Len(lines)
        IN  /\ ~execution.raised
            /\ execution.result.success <=> valid
            /\ execution.result.success =>
                   execution.result.content
                       = NumberedLines(SubSeq(lines, FirstLine, LastLine), FirstLine)

(***************************************************************************)
(* C28: after a successful write of content c to path p, with mode create  *)
(* or overwrite the file holds c, with mode append it holds what it held   *)
(* before followed by c (nothing before when the file was absent); no      *)
(* other file changes, and a read of p that follows returns these lines.   *)
(***************************************************************************)
C28_WrittenContent ==
    (invocation.tool = "write_file" /\ ~execution.raised /\ execution.result.success) =>
        LET a == invocation.arguments
            previous == IF TargetBefore.kind = "file" THEN TargetBefore.content ELSE <<>>
            expected == IF a.mode = "append" THEN previous \o a.content ELSE a.content
            reread == ReadExecute(fs, a.filepath, Omitted, Omitted)
        IN  /\ a.mode \in {"create", "overwrite", "append"}
            /\ TargetAfter = File(expected)
            /\ \A n \in FileNodes \ {TargetLoc} :
                   (fs_before[n].kind = "file" \/ fs[n].kind = "file") =>
                       fs[n] = fs_before[n]
            /\ ~reread.raised
            /\ reread.result.success
            /\ reread.result.content = NumberedLines(ReadLines(expected), 1)
            /\ reread.result.metadata.total_lines = Len(ReadLines(expected))

\* an append to a file that held a line, giving a file of two lines
C28_Witness ==
    /\ invocation.tool = "write_file"
    /\ execution.result.success
    /\ invocation.arguments.mode = "append"
    /\ TargetBefore.kind = "file"
    /\ TargetBefore.content # <<>>
    /\ invocation.arguments.content # <<>>
    /\ Len(ReadLines(TargetAfter.content)) = 2

(***************************************************************************)
(* C23 as stated: the instrumentation attached to the delegation tool is a *)
(* pure observer: with it attached, and also when one of its calls raises, *)
(* a delegation ends as it ends without it on the same inputs: the same    *)
(* failure for a blank task or a failed construction, and otherwise the    *)
(* result the nested run returned.                                         *)
(***************************************************************************)
C23_InstrumentationObserves ==
    Ended("call_agent") =>
        LET d == delegation
        IN  IF IsBlank(d.task_description)
            THEN execution = Failure("task_description must not be empty")
            ELSE IF d.raised_in = "create"
            THEN execution = Returned(CreationFailed(d.agent_type, d.e))
            ELSE IF d.ran
            THEN execution = Returned(d.nested)
            ELSE execution \in { Returned(r) : r \in NestedResults(d.agent_type, d.max_steps) }

\* a step that is a call of reset()
ResetStep == pc \in {"idle", "done"} /\ pc' = "idle"

\* a step that is a call of run()
RunStep == pc \in {"idle", "done"} /\ pc' = "loop"

\* a step in which a run returns
ReturnStep == pc # "done" /\ pc' = "done"

\* one sequence starts with the other
IsPrefix(short, long) ==
    /\ Len(short) <= Len(long)
    /\ \A i \in 1..Len(short) : short[i] = long[i]

(***************************************************************************)
(* C24 as stated: after reset the history is exactly the system message    *)
(* and a following run starts with a step count of zero; reset does not    *)
(* clear the output files accumulated so far: the files the run before the *)
(* reset reported are in the output_files of the run after it.             *)
(***************************************************************************)
C24_ResetKeepsFiles ==
    [][ /\ ResetStep => messages' = InitialMessages
        /\ RunStep => step' = 0
        /\ (ReturnStep /\ runs >= 2 /\ RunStart = 2) =>
               IsPrefix(result.metadata.output_files, result'.metadata.output_files)
      ]_vars

(***************************************************************************)
(* C26: between resets the history is append-only: after every step that   *)
(* is not a reset the history before the step is a prefix of the history   *)
(* after it, and the first message is always the system message.           *)
(***************************************************************************)
C26_AppendOnly ==
    [][ /\ ~ResetStep => IsPrefix(messages, messages')
        /\ messages'[1] = InitialMessages[1]
      ]_vars

\* a second run on the same agent without a reset, its history holding the
\* messages of both runs
C26_Witness ==
    /\ runs = 2
    /\ pc = "done"
    /\ RunStart > 2
    /\ Len(messages) > RunStart

(***************************************************************************)
(* C30 as stated: the output_files of a run's terminal result are, in      *)
(* dispatch order, the filepath values of the successful tool results of   *)
(* the run that carry a filepath; a failed tool result adds no entry, even *)
(* when its metadata carries a filepath.                                   *)
(***************************************************************************)
C30_FilesOfSuccesses ==
    [][ /\ RunStep => output_files' = <<>>
        /\ pc = "tool" =>
               output_files' = IF tool_result'.success
                                    /\ "filepath" \in DOMAIN tool_result'.metadata
                                THEN Append(output_files, tool_result'.metadata.filepath)
                                ELSE output_files
        /\ (~RunStep /\ pc # "tool") => output_files' = output_files
        /\ ReturnStep => result'.metadata.output_files = output_files'
      ]_vars

C37_WitnessNoBudget ==
    /\ pc = "done"
    /\ max_steps = 0
    /\ runs = 1

\* a step in which the loop is through with the current call: execute
\* returned or raised, or the call was answered as unknown
AnswerStep == pc = "tool" \/ (pc = "dispatch" /\ pc' # "tool")

\* the tool message the source describes for a call and its result
AnswerFor(call, tr) ==
    [role |-> "tool",
     content |-> IF tr.success THEN tr.content ELSE "Error: " \o Str(tr.error),
     tool_calls |-> <<>>,
     tool_call_id |-> call.id,
     name |-> call.name]

(***************************************************************************)
(* C32 as stated: for every tool call the loop dispatches, exactly one     *)
(* tool message is appended before the next call is dispatched; it carries *)
(* the call's id and tool name, and its content is the result's content    *)
(* when the result succeeded and 'Error: ' followed by the result's error  *)
(* when it failed.                                                         *)
(***************************************************************************)
C32_EveryCallAnswered ==
    [][ /\ AnswerStep =>
               messages' = Append(messages,
                                  AnswerFor(CurrentCall(response, idx), tool_result'))
        /\ (pc = "dispatch" /\ pc' = "tool") => messages' = messages
      ]_vars

(***************************************************************************)
(* C32 amended: for every tool call the loop dispatches whose name is not  *)
(* complete_task, exactly one tool message is appended before the next     *)
(* call is dispatched or the next step begins; it carries the call's id    *)
(* and tool name, and its content is the result's content when the result  *)
(* succeeded and 'Error: ' followed by the result's error when it failed.  *)
(* For a call named complete_task no tool message is appended: the run     *)
(* returns.                                                                *)
(***************************************************************************)
C32_OtherCallsAnswered ==
    [][ /\ AnswerStep =>
               LET call == CurrentCall(response, idx)
               IN  IF call.name # CompleteName
                   THEN /\ messages' = Append(messages, AnswerFor(call, tool_result'))
                        /\ pc' \in {"dispatch", "loop"}
                        /\ pc' = "dispatch" => idx' = idx + 1
                   ELSE /\ messages' = messages
                        /\ pc' = "done"
        /\ (pc = "dispatch" /\ pc' = "tool") => messages' = messages
      ]_vars

\* the first call of a response failed, its tool message carries the error
\* text, and the second call is being executed
C32_Witness ==
    /\ pc = "tool"
    /\ idx = 2
    /\ Last(messages).role = "tool"
    /\ Last(messages).content = "Error: failed"
    /\ Last(messages).tool_call_id = response.tool_calls[1].id
    /\ Last(messages).name = response.tool_calls[1].name

\* the history of a run that has ended through a complete_task call: the
\* last assistant message is followed by the tool messages of the calls
\* listed before the completion call, and by nothing else
EndsUnanswered ==
    LET k == CHOOSE a \in AssistantAt : \A b \in AssistantAt : b <= a
        calls == RunMessages[k].tool_calls
        answers == SubSeq(RunMessages, k + 1, Len(RunMessages))
    IN  /\ AssistantAt # {}
        /\ calls = response.tool_calls
        /\ calls[idx].name = CompleteName
        /\ Len(answers) = idx - 1
        /\ \A j \in 1..(idx - 1) :
               /\ answers[j].role = "tool"
               /\ answers[j].tool_call_id = calls[j].id
               /\ calls[j].name # CompleteName
        /\ \A j \in idx..Len(calls) : ~Answered(calls[j].id)

(***************************************************************************)
(* C39: when a run ends through a complete_task call, no tool message is   *)
(* appended for that call: the history ends with the last assistant        *)
(* message followed by tool messages for exactly the calls listed before   *)
(* complete_task; a run started on the same agent without a reset appends  *)
(* its user message right after them, so the completion call (and any call *)
(* listed after it) stays without a tool message.                          *)
(***************************************************************************)
C39_CompletionCallUnanswered ==
    [][ /\ (ReturnStep /\ exit' = "completion") =>
               /\ messages' = messages
               /\ EndsUnanswered'
        /\ (RunStep /\ pc = "done" /\ exit = "completion") =>
               /\ EndsUnanswered
               /\ messages' = Append(messages, Message("user", TaskText, <<>>, None, None))
      ]_vars

\* a second run was started without a reset after a run that ended at the
\* complete_task call listed second: the new user message follows the tool
\* message of the first call, and the completion call has no tool message
C39_Witness ==
    /\ runs = 2
    /\ RunStart = 5
    /\ messages[3].role = "assistant"
    /\ Len(messages[3].tool_calls) = 2
    /\ messages[3].tool_calls[2].name = CompleteName
    /\ messages[4].role = "tool"
    /\ messages[4].tool_call_id = messages[3].tool_calls[1].id

(***************************************************************************)
(* WorkspaceManager.clear_workspace, called on workspaces of every shape   *)
(* the file tools can leave behind.                                        *)
(***************************************************************************)
\* the sequences that list the elements of S once each: the orders in which
\* a directory scan may yield them
Orders(S) ==
    { s \in [1..Cardinality(S) -> S] : \A i, j \in 1..Cardinality(S) : s[i] = s[j] => i = j }

\* what the workspace root holds, its symbolic link included: the items
\* self.workspace_dir.rglob("*") yields before it descends
RootEntries(f) ==
    { n \in DOMAIN f \cup DOMAIN Links :
        /\ Len(n) = Len(WorkspaceDir) + 1
        /\ IsRelativeTo(n, WorkspaceDir)
        /\ (n \in DOMAIN Links \/ f[n].kind # "absent") }

\* the for loop of clear_workspace over the items in the order yielded: a
\* file is unlinked, a directory is removed with rmdir, which raises for a
\* directory that is not empty and for a symbolic link to a directory
RECURSIVE ClearWalk(_, _)
ClearWalk(f, items) ==
    IF items = <<>> THEN [out |-> [raised |-> FALSE, result |-> None], fs |-> f]
    ELSE LET item == Head(items)
             entry == Lookup(f, RealPath(<<>>, item))
             below == { c \in DOMAIN f : /\ Len(c) > Len(item)
                                         /\ IsRelativeTo(c, item)
                                         /\ f[c].kind # "absent" }
         IN  IF entry.kind = "file"
             THEN ClearWalk([f EXCEPT ![item] = Absent], Tail(items))
             ELSE IF item \in DOMAIN Links
             THEN [out |-> Raised("Not a directory"), fs |-> f]
             ELSE IF below # {}
             THEN [out |-> Raised("Directory not empty"), fs |-> f]
             ELSE ClearWalk([f EXCEPT ![item] = Absent], Tail(items))

\* WorkspaceManager.clear_workspace(confirm), the root's items yielded in
\* the order `items`; once they are gone the walk finds nothing below
clear_workspace(f, confirm, items) ==
    IF ~confirm
    THEN [out |-> Raised("Must pass confirm=True to clear workspace (safety check)"),
          fs |-> f]
    ELSE ClearWalk(f, items)

\* the locations below the workspace root
UnderRoot == { n \in FileNodes : Len(n) > Len(WorkspaceDir) /\ IsRelativeTo(n, WorkspaceDir) }

\* the workspaces the file tools can leave behind: a file or nothing at a,
\* a file, a directory or nothing at d, a file or nothing in the directory
ClearShapes ==
    { f \in [FileNodes -> {Absent, Dir, File(<<"a">>), File(<<"s">>)}] :
        /\ f[<<"etc", "x">>] = InitialFs[<<"etc", "x">>]
        /\ \A n \in UnderRoot : f[n] # File(<<"s">>)
        /\ f[<<"ws", "a">>].kind # "dir"
        /\ f[<<"ws", "d", "a">>].kind # "dir"
        /\ f[<<"ws", "d", "a">>].kind = "file" => f[<<"ws", "d">>].kind = "dir" }

ClearInit ==
    /\ AgentIdle
    /\ fs \in ClearShapes
    /\ fs_before = fs
    /\ invocation = NoCall
    /\ execution = NoOutcome
    /\ ops = 0
    /\ workflow = NoWorkflow
    /\ delegation = NoDelegation
    /\ shell = NoShell

\* workspace.clear_workspace() and workspace.clear_workspace(confirm)
ClearCall ==
    /\ ops < MaxOps
    /\ UNCHANGED <<workflow, delegation, shell>>
    /\ \E confirm \in BOOLEAN, items \in Orders(RootEntries(fs)) :
         LET c == clear_workspace(fs, confirm, items)
         IN  Called(ToolCallOf("clear_workspace", [confirm |-> confirm]), c.out, c.fs)

ClearNext ==
    \/ ClearCall
    \/ WriteCall

ClearSpec == ClearInit /\ [][ClearNext]_vars

(***************************************************************************)
(* C36 as stated: the workspace is never deleted implicitly:               *)
(* clear_workspace without confirm = TRUE fails and removes nothing;       *)
(* clear_workspace(confirm = TRUE) removes every file and every            *)
(* subdirectory under the root, at any nesting depth, and touches nothing  *)
(* outside the root.                                                       *)
(***************************************************************************)
C36_ClearWorkspace ==
    invocation.tool = "clear_workspace" =>
        IF invocation.arguments.confirm
        THEN /\ \A n \in UnderRoot : fs[n] = Absent
             /\ \A n \in FileNodes \ UnderRoot : fs[n] = fs_before[n]
        ELSE /\ execution.raised
             /\ fs = fs_before

(***************************************************************************)
(* EditTool.execute on files whose text has repeated and overlapping       *)
(* pieces.                                                                 *)
(***************************************************************************)
EditTexts == { <<>>, <<"a", "a", "a">>, <<"a", "b", "a">>, <<"b", "a", "a">> }
EditOlds == { <<>>, <<"a">>, <<"a", "a">>, <<"a", "b">> }
EditNews == { <<>>, <<"c">>, <<"a">> }
EditFiles == { PathOf(FALSE, <<"a">>), PathOf(FALSE, <<"d", "a">>) }

\* a workspace that holds the file a and the file d/a
EditInit ==
    /\ AgentIdle
    /\ \E text \in EditTexts, other \in EditTexts :
         fs = [InitialFs EXCEPT ![<<"ws", "a">>] = File(text),
                                ![<<"ws", "d">>] = Dir,
                                ![<<"ws", "d", "a">>] = File(other)]
    /\ fs_before = fs
    /\ invocation = NoCall
    /\ execution = NoOutcome
    /\ ops = 0
    /\ workflow = NoWorkflow
    /\ delegation = NoDelegation
    /\ shell = NoShell

\* await EditTool(workspace).execute(filepath, old_string, new_string)
EditAt ==
    /\ ops < MaxOps
    /\ UNCHANGED <<workflow, delegation, shell>>
    /\ \E p \in EditFiles, old_string \in EditOlds, new_string \in EditNews :
         LET e == EditExecute(fs, p, old_string, new_string)
         IN  Called(ToolCallOf("edit_file",
                               [filepath |-> p, old_string |-> old_string,
                                new_string |-> new_string]),
                    e.out, e.fs)

EditNext == EditAt

EditSpec == EditInit /\ [][EditNext]_vars

\* the positions of text at which sub starts, overlapping ones included
StartsOf(text, sub) ==
    { i \in 1..(Len(text) - Len(sub) + 1) : SubSeq(text, i, i + Len(sub) - 1) = sub }

\* text with the Len(old) characters from position i on replaced by new
ReplacedAt(text, i, old, new) ==
    SubSeq(text, 1, i - 1) \o new \o SubSeq(text, i + Len(old), Len(text))

(***************************************************************************)
(* C40 as stated: when an edit succeeds, old_string matched at exactly one *)
(* start position of the prior content (overlapping matches counted), the  *)
(* new content is the prior content with that one occurrence replaced by   *)
(* new_string and every character outside it unchanged, and no other file  *)
(* changes.                                                                *)
(***************************************************************************)
C40_EditReplacesTheOnlyMatch ==
    (OnFile("edit_file") /\ ~execution.raised /\ execution.result.success) =>
        LET old == invocation.arguments.old_string
            new == invocation.arguments.new_string
            at == StartsOf(TargetBefore.content, old)
        IN  /\ Cardinality(at) = 1
            /\ \A i \in at :
                   TargetAfter = File(ReplacedAt(TargetBefore.content, i, old, new))
            /\ \A n \in FileNodes \ {TargetLoc} : fs[n] = fs_before[n]

(***************************************************************************)
(* An orchestrator run that delegates: the loop of BaseAgent.run with a    *)
(* CallAgentTool whose nested agent runs the same loop.  While the nested  *)
(* agent runs, the agent variables are the nested agent's and the          *)
(* orchestrator's are kept in delegation.caller: the orchestrator's        *)
(* coroutine is suspended in its await of tool.execute.                    *)
(***************************************************************************)
DelegateName == "call_agent"

\* the tools create_searcher, create_analyzer and create_writer register
\* an assistant agent that could delegate in its turn
AssistantToolsDelegating(at) ==
    (IF at = "searcher" THEN SearcherTools ELSE SearcherTools \ {"web_search"})
        \cup {DelegateName}

AssistantTools(at) ==
    IF at = "searcher" THEN SearcherTools ELSE SearcherTools \ {"web_search"}

\* the system prompt PromptLoader loads for an agent type
PromptOf(at) == "sys:" \o at

\* the arguments the model sends with a call_agent call
TeamDelegations ==
    { [agent_type |-> "writer", task_description |-> "do", max_steps |-> 2],
      [agent_type |-> "searcher", task_description |-> " ", max_steps |-> 1] }

\* the calls a model response carries here: a delegation, a file written,
\* the completion call
TeamRequests ==
    { [name |-> DelegateName, arguments |-> a] : a \in TeamDelegations }
    \cup { [name |-> "write_file", arguments |-> a] : a \in OtherArgs }
    \cup { [name |-> CompleteName, arguments |-> [success |-> TRUE, summary |-> "all done"]] }

\* the tool-call lists of a response: one call or two for the orchestrator;
\* one call for a nested agent, whose model is given one way to ask for a
\* delegation
TeamResponses(nested) ==
    IF nested
    THEN { <<r>> : r \in { q \in TeamRequests :
                              q.name = DelegateName => q.arguments.agent_type = "writer" } }
    ELSE { <<r>> : r \in TeamRequests } \cup { <<r, q>> : r \in TeamRequests, q \in TeamRequests }

\* the number of call_agent calls among the requests
Delegations(reqs) == Cardinality({ i \in 1..Len(reqs) : reqs[i].name = DelegateName })

\* the agent whose loop is executing: the orchestrator, or the nested agent
\* while CallAgentTool.execute awaits agent.run
Active == delegation.pc \in {"idle", "running"}

\* the agent variables as a record
Frame ==
    [agent_type |-> agent_type, tools |-> tools, max_steps |-> max_steps,
     messages |-> messages, step |-> step, output_files |-> output_files,
     response |-> response, idx |-> idx, tool_result |-> tool_result, pc |-> pc,
     result |-> result, exit |-> exit, runs |-> runs, appended |-> appended,
     trace |-> trace]

\* create_orchestrator(llm_client, workspace_dir, max_steps)
TeamInit ==
    /\ ToolsIdle
    /\ agent_type = "orchestrator"
    /\ tools = OrchestratorTools
    /\ max_steps \in 1..MaxStepsBound
    /\ messages = InitialMessages
    /\ step = 0
    /\ output_files = <<>>
    /\ response = NoResponse
    /\ idx = 0
    /\ tool_result = NoResult
    /\ pc = "idle"
    /\ result = NoResult
    /\ exit = "none"
    /\ runs = 0
    /\ appended = 0
    /\ trace = <<>>

\* orchestrator.run(task)
TeamRun == Run /\ runs = 0 /\ delegation.pc = "idle"

\* llm.generate returns a response with tool calls to the agent that is
\* executing; the model asks for no more delegations than MaxDelegations
\* allows, and for no more calls than leave room in the bounded history for
\* the assistant message of the next step, when the budget allows a next step
TeamLLMReturnCalls ==
    /\ pc = "llm"
    /\ Active
    /\ \E reqs \in { r \in TeamResponses(delegation.pc = "running") :
                       /\ Fits(Len(r) + (IF LoopGuard(step, max_steps) THEN 1 ELSE 0))
                       /\ delegation.pc = "idle" => Delegations(r) <= MaxDelegations - ops } :
         LET resp == LLMResponse(step, "thinking", reqs)
         IN  /\ ~NoToolCalls(resp)
             /\ response' = resp
             /\ AppendMessage(AssistantMessage(resp))
             /\ trace' = Append(trace, LlmReturnEvent(resp))
             /\ idx' = 1
             /\ pc' = "dispatch"
    /\ UNCHANGED <<toolvars, config, step, output_files, tool_result, result, exit, runs>>

\* the other steps of the loop of the agent that is executing
TeamStartStep == Active /\ StartStep
TeamExhausted == Active /\ Exhausted
TeamLLMRaise == Active /\ LLMRaise
TeamLLMReturnText == Active /\ LLMReturnText
TeamDispatchUnknown == Active /\ DispatchUnknown
TeamDispatchExecute == Active /\ DispatchExecute
TeamToolDone ==
    Active /\ pc = "tool" /\ CurrentCall(response, idx).name # DelegateName /\ ToolDone

\* tool.execute of the orchestrator's call_agent call: execute
\* is entered with the arguments of the call
TeamDelegate ==
    /\ pc = "tool"
    /\ delegation.pc = "idle"
    /\ CurrentCall(response, idx).name = DelegateName
    /\ DelegationExecute
    /\ invocation'.arguments = CurrentCall(response, idx).arguments

\* a nested agent that is handed the history of its caller
NestedHistoryInherited(at, task) ==
    Append(messages, Message("user", task, <<>>, None, None))

\* the history of the agent _create_agent built, once run has appended the
\* task: the system message of BaseAgent.__init__ and the user message
NestedHistory(at, task) ==
    << Message("system", PromptOf(at), <<>>, None, None),
       Message("user", task, <<>>, None, None) >>

\* result = await agent.run(full_task), its first statement: the agent
\* _create_agent built takes the task as its user message
TeamRunStarts ==
    /\ delegation.pc = "run"
    /\ delegation' = [delegation EXCEPT !.pc = "running", !.caller = Frame]
    /\ agent_type' = delegation.agent_type
    /\ tools' = AssistantTools(delegation.agent_type)
    /\ max_steps' = delegation.max_steps
    /\ messages' = NestedHistory(delegation.agent_type, delegation.task_description)
    /\ step' = 0
    /\ output_files' = <<>>
    /\ response' = NoResponse
    /\ idx' = 0
    /\ tool_result' = NoResult
    /\ pc' = "loop"
    /\ result' = NoResult
    /\ exit' = "none"
    /\ runs' = 1
    /\ appended' = 1
    /\ trace' = <<>>
    /\ UNCHANGED <<fs, fs_before, invocation, execution, ops, workflow, shell>>

\* agent.run returns to CallAgentTool.execute: the nested agent is dropped
TeamRunReturns ==
    /\ delegation.pc = "running"
    /\ pc = "done"
    /\ delegation' = [delegation EXCEPT !.pc = "complete", !.ran = TRUE, !.nested = result,
                                        !.calls = trace, !.caller = << >>]
    /\ agent_type' = delegation.caller.agent_type
    /\ tools' = delegation.caller.tools
    /\ max_steps' = delegation.caller.max_steps
    /\ messages' = delegation.caller.messages
    /\ step' = delegation.caller.step
    /\ output_files' = delegation.caller.output_files
    /\ response' = delegation.caller.response
    /\ idx' = delegation.caller.idx
    /\ tool_result' = delegation.caller.tool_result
    /\ pc' = delegation.caller.pc
    /\ result' = delegation.caller.result
    /\ exit' = delegation.caller.exit
    /\ runs' = delegation.caller.runs
    /\ appended' = delegation.caller.appended
    /\ trace' = delegation.caller.trace
    /\ UNCHANGED <<fs, fs_before, invocation, execution, ops, workflow, shell>>

\* CallAgentTool.execute has returned or raised to the orchestrator's loop,
\* and the rest of the for body runs
TeamDelegateDone ==
    /\ pc = "tool"
    /\ delegation.pc = "done"
    /\ LET call == CurrentCall(response, idx)
           tr == ResultOf(execution)
           files == TrackFiles(output_files, execution)
       IN  /\ call.name = DelegateName
           /\ tool_result' = tr
           /\ output_files' = files
           /\ trace' = Append(trace, ToolEndEvent(call, idx, execution))
           /\ AfterTool(call, tr, files)
    /\ delegation' = NoDelegation
    /\ UNCHANGED <<config, step, response, runs>>
    /\ UNCHANGED <<fs, fs_before, invocation, execution, ops, workflow, shell>>

TeamNext ==
    \/ TeamRun
    \/ TeamStartStep
    \/ TeamExhausted
    \/ TeamLLMRaise
    \/ TeamLLMReturnText
    \/ TeamLLMReturnCalls
    \/ TeamDispatchUnknown
    \/ TeamDispatchExecute
    \/ TeamToolDone
    \/ TeamDelegate
    \/ DelegationStart
    \/ TeamRunStarts
    \/ TeamRunReturns
    \/ DelegationComplete
    \/ DelegationHandler
    \/ TeamDelegateDone

TeamSpec == TeamInit /\ [][TeamNext]_vars

(***************************************************************************)
(* What the instrumentation attached to the delegation tool is told: the   *)
(* events of each sink (the UI, the trace logger), for delegations whose   *)
(* calls into the instrumentation all return.                              *)
(***************************************************************************)
Sinks == {"ui", "trace_logger"}

Attached(s) == IF s = "ui" THEN delegation.ui ELSE delegation.trace_logger

StreamEvent(ev, agent, tool) == [ev |-> ev, agent |-> agent, tool |-> tool]

\* what the nested run has done so far, or did
NestedCalls == IF delegation.pc = "running" THEN trace ELSE delegation.calls

\* the events execute_with_ui reports to a sink for the tool calls of the
\* nested run: log_tool_call before the tool's own execute, log_tool_result
\* after it has returned or raised
RECURSIVE execute_with_ui(_, _)
execute_with_ui(at, calls) ==
    IF calls = <<>> THEN <<>>
    ELSE LET e == Head(calls)
         IN  (IF e.ev = "tool_start" THEN << StreamEvent("tool_call", at, e.name) >>
              ELSE IF e.ev = "tool_end" THEN << StreamEvent("tool_result", at, e.name) >>
              ELSE <<>>)
             \o execute_with_ui(at, Tail(calls))

\* the events sink s has been told by the delegation: log_agent_start, then
\* what the wrappers report (_setup_subagent_ui installs them when a UI is
\* attached), then log_agent_complete
Stream(s) ==
    LET d == delegation
        started == d.created /\ d.pc \in {"run", "running", "complete", "handler", "done"}
        completed == d.ran /\ d.pc = "done"
    IN  IF ~Attached(s) THEN <<>>
        ELSE (IF started THEN << StreamEvent("agent_start", d.agent_type, None) >> ELSE <<>>)
             \o (IF d.ui THEN execute_with_ui(d.agent_type, NestedCalls) ELSE <<>>)
             \o (IF completed THEN << StreamEvent("agent_complete", d.agent_type, None) >>
                 ELSE <<>>)

\* a step in which the orchestrator's loop enters CallAgentTool.execute
DelegateStep == delegation.pc = "idle" /\ invocation' # invocation

(***************************************************************************)
(* C33: the delegation tool called with an empty or whitespace-only task   *)
(* description returns a failed ToolResult without constructing a nested   *)
(* agent, without any model call and without emitting any instrumentation  *)
(* event: execute ends in the step it is entered, the caller's agent is    *)
(* left as it is, and the next thing that happens is the caller's loop     *)
(* going on with the failure.                                              *)
(***************************************************************************)
C33_BlankTaskRejected ==
    [][ /\ (DelegateStep /\ invocation'.arguments.task_description \in {"", " "}) =>
               /\ delegation'.pc = "done"
               /\ execution' = Failure("task_description must not be empty")
               /\ ~delegation'.created
               /\ ~delegation'.ran
               /\ delegation'.caller = << >>
               /\ UNCHANGED agentvars
               /\ \A s \in Sinks : Stream(s)' = <<>>
        /\ (delegation.pc = "done" /\ delegation.task_description \in {"", " "}) =>
               /\ delegation'.pc = "idle"
               /\ tool_result' = execution.result
               /\ trace' = Append(trace, ToolEndEvent(CurrentCall(response, idx), idx, execution))
      ]_vars

\* the orchestrator's loop has gone on after a delegation with a blank task
\* that had instrumentation attached: the failure is the call's tool result
C33_Witness ==
    /\ invocation.tool = DelegateName
    /\ invocation.arguments.task_description = " "
    /\ delegation.pc = "idle"
    /\ tool_result = ToolResult(FALSE, "", "task_description must not be empty", EmptyMeta)
    /\ Last(messages).role = "tool"
    /\ Last(messages).content = "Error: task_description must not be empty"
    /\ LlmCalls = 1

\* the tool calls the nested run executed
Executed(calls) == { i \in 1..Len(calls) : calls[i].ev = "tool_start" }

(***************************************************************************)
(* C35 as stated: whenever instrumentation is attached to the delegation   *)
(* tool (a trace logger, a UI, or both), every tool call executed inside   *)
(* the nested agent produces one tool-call event followed by exactly one   *)
(* tool-result event for the same tool, all of them after the nested       *)
(* agent-start event and before its agent-complete event, also when only   *)
(* the trace logger is attached.                                           *)
(***************************************************************************)
C35_NestedCallsReported ==
    (delegation.pc = "done" /\ delegation.ran /\ delegation.raised_in = "none") =>
        \A s \in { t \in Sinks : Attached(t) } :
            LET evs == Stream(s)
                n == Cardinality(Executed(delegation.calls))
            IN  /\ Len(evs) = 2 * n + 2
                /\ evs[1].ev = "agent_start"
                /\ evs[Len(evs)].ev = "agent_complete"
                /\ \A k \in 1..n :
                       /\ evs[2 * k].ev = "tool_call"
                       /\ evs[2 * k + 1].ev = "tool_result"
                       /\ evs[2 * k + 1].tool = evs[2 * k].tool

(***************************************************************************)
(* C31 as stated: the output_files of an orchestrator run lists all files  *)
(* generated during the run, including the files written by the sub-agents *)
(* it called through call_agent: the files a delegation's result reports   *)
(* are in the orchestrator's list once the loop has taken the result, and  *)
(* the terminal result carries the list.                                   *)
(***************************************************************************)
C31_SubAgentFilesListed ==
    [][ /\ (/\ delegation.pc = "done"
            /\ delegation.ran
            /\ ~execution.raised
            /\ "output_files" \in DOMAIN execution.result.metadata) =>
               \A i \in 1..Len(execution.result.metadata.output_files) :
                   \E j \in 1..Len(output_files') :
                       output_files'[j] = execution.result.metadata.output_files[i]
        /\ (ReturnStep /\ delegation.pc \in {"idle", "done"}) =>
               result'.metadata.output_files = output_files'
      ]_vars

\* steps of CallAgentTool.execute: the nested run starts, goes on, returns;
\* the orchestrator's loop takes the outcome
NestedStarts == delegation.pc = "run" /\ delegation'.pc = "running"
NestedGoesOn == delegation.pc = "running" /\ delegation'.pc = "running"
NestedReturns == delegation.pc = "running" /\ delegation'.pc = "complete"
OutcomeTaken == delegation.pc = "done" /\ delegation'.pc = "idle"

(***************************************************************************)
(* C34: a sub-agent's lifetime is strictly nested in the parent's          *)
(* call_agent dispatch.  The nested run starts while the parent's loop     *)
(* awaits the execute of its call_agent call, with a history of its own    *)
(* that is exactly [system, user task]; as long as execute has not         *)
(* returned, the parent's history, step count and calls stay as they were  *)
(* (the parent makes no model call and dispatches nothing); every model    *)
(* call and tool call made in between is the nested agent's; and when the  *)
(* loop takes the outcome, the parent's history gains exactly one message: *)
(* the tool message of the delegation.                                     *)
(***************************************************************************)
C34_StrictlyNested ==
    [][ /\ NestedStarts =>
               /\ pc = "tool"
               /\ CurrentCall(response, idx).name = DelegateName
               /\ Last(trace) = ToolStartEvent(CurrentCall(response, idx), idx)
               /\ delegation'.caller = Frame
               /\ messages' = << Message("system", PromptOf(delegation.agent_type),
                                         <<>>, None, None),
                                 Message("user", delegation.task_description,
                                         <<>>, None, None) >>
               /\ trace' = <<>>
               /\ step' = 0
        /\ NestedGoesOn =>
               /\ delegation'.caller = delegation.caller
               /\ agent_type' = delegation.agent_type
               /\ IsPrefix(messages, messages')
        /\ NestedReturns => Frame' = delegation.caller
        /\ (delegation.pc \notin {"idle", "running"}
                /\ delegation'.pc \notin {"idle", "running"}) => UNCHANGED agentvars
        /\ OutcomeTaken =>
               LET call == CurrentCall(response, idx)
               IN  /\ call.name = DelegateName
                   /\ Last(trace) = ToolStartEvent(call, idx)
                   /\ trace' = Append(trace, ToolEndEvent(call, idx, execution))
                   /\ step' = step
                   /\ Len(messages') = Len(messages) + 1
                   /\ IsPrefix(messages, messages')
                   /\ Last(messages').role = "tool"
                   /\ Last(messages').tool_call_id = call.id
                   /\ Last(messages').name = DelegateName
      ]_vars

\* the orchestrator has appended the tool message of a delegation whose
\* nested run made two model calls, and has itself made one
C34_Witness ==
    /\ agent_type = "orchestrator"
    /\ delegation.pc = "idle"
    /\ Last(messages).role = "tool"
    /\ Last(messages).name = DelegateName
    /\ Last(trace).ev = "tool_end"
    /\ "steps_used" \in DOMAIN tool_result.metadata
    /\ tool_result.metadata.steps_used = 2
    /\ LlmCalls = 1

\* every model call and every execute that has been made returns or raises:
\* a step that is enabled is eventually taken
FairTeamSpec == TeamSpec /\ WF_vars(TeamNext)

\* the orchestrator's run has returned
Terminated == agent_type = "orchestrator" /\ delegation.pc = "idle" /\ pc = "done"

\* model calls of the agent whose frame is saved while a nested agent runs
CallerLlmCalls ==
    Cardinality({ i \in 1..Len(delegation.caller.trace) :
                    delegation.caller.trace[i].ev = "llm_call" })

(***************************************************************************)
(* C38: provided every model call and every tool execute returns or        *)
(* raises, every run terminates.  The orchestrator's run returns; a run,   *)
(* top-level or nested, makes at most its max_steps model calls, and the   *)
(* max_steps of a nested run is the one its call_agent call asked for;     *)
(* while a nested agent runs it is a searcher, an analyzer or a writer,    *)
(* has no call_agent tool, and the agent waiting for it is the             *)
(* orchestrator, so that delegation is never more than one level deep: a   *)
(* call_agent request of a nested agent is answered as an unknown tool.    *)
(***************************************************************************)
C38_EveryRunTerminates ==
    /\ <>[]Terminated
    /\ [](LlmCalls <= max_steps)
    /\ [](delegation.pc = "running" =>
              /\ agent_type \in {"searcher", "analyzer", "writer"}
              /\ agent_type = delegation.agent_type
              /\ DelegateName \notin tools
              /\ max_steps = invocation.arguments.max_steps
              /\ delegation.caller.agent_type = "orchestrator"
              /\ delegation.caller.pc = "tool"
              /\ CallerLlmCalls <= delegation.caller.max_steps)
    /\ [][ (/\ delegation.pc = "running"
            /\ pc = "dispatch"
            /\ CurrentCall(response, idx).name = DelegateName
            /\ pc' # pc) =>
               /\ delegation' = delegation
               /\ pc' = "loop"
               /\ Len(messages') = Len(messages) + 1
               /\ Last(messages').role = "tool"
               /\ Last(messages').content = "Error: Unknown tool: " \o DelegateName
       ]_vars

\* the orchestrator's run has returned after a delegation in which the nested
\* agent used up its two model calls
C38_Witness ==
    /\ Terminated
    /\ \E i \in 1..Len(messages) :
         /\ messages[i].role = "tool"
         /\ messages[i].name = DelegateName
         /\ messages[i].content = "Error: Max steps (2) reached without completion"

====
